---- MODULE Spec2Model ----
(***************************************************************************)
(* Transfer control engine of Patrick IM (frontend/src/hooks/              *)
(* useFileTransfer.js and the message handlers of App.jsx).                *)
(*                                                                         *)
(* Sender side: the file queue (sendFile / processFileQueue), the fan-out  *)
(* of one file to every peer (sendFileActual / sendFileToChannel), the     *)
(* batched send loop (sendBatch) driven by the channel's bufferedamountlow *)
(* event, and the pause / resume / cancel handlers, local and remote.      *)
(* Every event handler of the page runs to completion (JavaScript is       *)
(* single threaded): one action per handler.  The continuation of an       *)
(* `await` is a separate action that runs before any other event           *)
(* (microtasks are drained before the next task).                          *)
(***************************************************************************)
EXTENDS Integers, Sequences, FiniteSets, TLC

\* ----------------------------------------------------------------- bounds
NumFiles == 3        \* files passed to sendFile(), in the order 1, 2, 3
MainFiles == 2       \* files sent in a run in which transfers are cancelled too
NumDests == 2        \* peers in peersRef (destinations of a broadcast)
ExtraChunks == 1     \* a large file has BatchSize + ExtraChunks chunks
ChunkSize == 2       \* bytes per chunk (32 KiB in sendFileActual, scaled down)
MaxOps == 3          \* pause / resume / cancel / close events in one run
MaxLen == 3          \* longest payload sent over the simulated channel, in bytes
MaxChunk == 2        \* largest chunk size tried over the simulated channel
MaxTamper == 2       \* chunks the simulated channel alters or loses in one run
LinkFiles == 2       \* files sent over the simulated channel
BothFiles == 1       \* files sent when both sides use their controls

\* ------------------------------------------------------ program constants
BatchSize == 32      \* chunks written per sendBatch run
LowWaterChunks == 16 \* bufferedAmountLowThreshold, in chunks

Files == 1..NumFiles
Dests == 1..NumDests
NoFile == 0

\* file.size of the files the model sends, in bytes: a file of one short
\* chunk, and a file that needs a second batch and ends in a short chunk.
FileSizes == {1, (BatchSize + ExtraChunks) * ChunkSize - 1}

Min(a, b) == IF a < b THEN a ELSE b

VARIABLES
    fileQueue,      \* fileQueueRef.current: the files waiting, in order
    isSendingFile,  \* isSendingFileRef.current
    nextFile,       \* the next file sendFile() will be called with
    timers,         \* pending setTimeout(() => processFileQueue(), 100)
    run,            \* per file: position of its processFileQueue invocation
    result,         \* per file: what that invocation ended with
    fileSize,       \* per file: file.size, in bytes
    chunkSize,      \* chunkSize of sendFileActual, in bytes
    open,           \* per peer: dc.readyState === 'open'
    transferControl,\* per file: `up-${fileId}` is a key of transferControlRef
    cancelled,      \* per file: control.cancelled
    subPaused,      \* per file, peer: control.subPaused[id]
    subCancelled,   \* per file, peer: control.subCancelled[id]
    subChannels,    \* per file: keys of control.subChannels
    subSendBatch,   \* per file: keys of control.subSendBatch
    chunkCount,     \* per file, peer: chunkCount of the sendFileToChannel closure
    offset,         \* per file, peer: offset (bytes sent) of that closure
    promise,        \* per file, peer: state of the sendFileToChannel promise
    handler,        \* per peer: whose sendBatch is dc.onbufferedamountlow
    threshold,      \* per peer: dc.bufferedAmountLowThreshold, in chunks
    fileProgress,   \* keys of the fileProgress state
    sentLog,        \* per peer: everything written to its channel, in order
    chat,           \* per file: file messages added to the sender's own chat
    finished,       \* files in the order their processFileQueue invocation ended
    rcvGone,        \* (file, peer): the peer cancelled its receive of the file
    ops,            \* pause / resume / cancel / close / tamper events so far
    quota,          \* how many files the user sends in this run
    rcv,            \* per peer: the receiving side of its channel
    tampered,       \* (peer, file): a chunk of the file was altered in flight
    hub,            \* the signaling server: Hub, rooms, clients, goroutines
    call            \* the call hook: its state, its refs, the signals it sent

senderVars == << fileQueue, isSendingFile, nextFile, timers, run, result, fileSize,
                 chunkSize, open, transferControl, cancelled, subPaused, subCancelled,
                 subChannels, subSendBatch, chunkCount, offset, promise, handler,
                 threshold, fileProgress, sentLog, chat, finished, rcvGone >>

linkVars == << rcv, tampered >>

NumConns == 3      \* connections the server accepts in one run
NumListers == 1    \* concurrent getRooms requests
SendCap == 1       \* capacity of client.send
MaxMsgs == 1       \* messages the clients send in one run

MaxCallEvents == 4 \* call signals received and user actions in one run

sideVars == << hub, call >>

vars == << senderVars, ops, quota, linkVars, sideVars >>

\* The sender's state as one record, so that a handler is a function from
\* state to state and handlers compose the way the calls in the code do.
St == [ fileQueue |-> fileQueue, isSendingFile |-> isSendingFile,
        nextFile |-> nextFile, timers |-> timers, run |-> run,
        result |-> result, fileSize |-> fileSize, chunkSize |-> chunkSize,
        open |-> open,
        transferControl |-> transferControl, cancelled |-> cancelled,
        subPaused |-> subPaused, subCancelled |-> subCancelled,
        subChannels |-> subChannels, subSendBatch |-> subSendBatch,
        chunkCount |-> chunkCount, offset |-> offset, promise |-> promise,
        handler |-> handler,
        threshold |-> threshold,
        fileProgress |-> fileProgress, sentLog |-> sentLog, chat |-> chat,
        finished |-> finished, rcvGone |-> rcvGone ]

Becomes(s) ==
    /\ fileQueue' = s.fileQueue
    /\ isSendingFile' = s.isSendingFile
    /\ nextFile' = s.nextFile
    /\ timers' = s.timers
    /\ run' = s.run
    /\ result' = s.result
    /\ fileSize' = s.fileSize
    /\ chunkSize' = s.chunkSize
    /\ open' = s.open
    /\ transferControl' = s.transferControl
    /\ cancelled' = s.cancelled
    /\ subPaused' = s.subPaused
    /\ subCancelled' = s.subCancelled
    /\ subChannels' = s.subChannels
    /\ subSendBatch' = s.subSendBatch
    /\ chunkCount' = s.chunkCount
    /\ offset' = s.offset
    /\ promise' = s.promise
    /\ handler' = s.handler
    /\ threshold' = s.threshold
    /\ fileProgress' = s.fileProgress
    /\ sentLog' = s.sentLog
    /\ chat' = s.chat
    /\ finished' = s.finished
    /\ rcvGone' = s.rcvGone

\* An event of the user, of a receiver or of the network: the model allows
\* MaxOps of them in one run.  Every other step leaves the count alone.
CountOp ==
    ops < MaxOps /\ ops' = ops + 1 /\ quota' = quota /\ UNCHANGED << linkVars, sideVars >>
SameOps == ops' = ops /\ quota' = quota /\ UNCHANGED << linkVars, sideVars >>

\* ---------------------------------------------------------- ChunkCodec
\* Math.ceil(byteLength / chunkSize)
TotalChunks(len, c) == (len + c - 1) \div c

\* Variant of Slice that takes one byte too many.
SliceOverlap(p, start, end) == SubSeq(p, start + 1, Min(end + 1, Len(p)))

\* arrayBuffer.slice(start, end): the bytes from index start (from 0) up to
\* but not including index end, clamped to the buffer
Slice(p, start, end) == SubSeq(p, start + 1, Min(end, Len(p)))

\* CryptoJS.MD5(...).toString(Base64): a digest of the byte sequence, taken
\* to be collision free.
MD5(bytes) == <<"md5", bytes>>

\* The content of file f: byte k of file f is the value <<f, k>>, so that
\* the bytes of different files differ.
Payload(f, size) == [k \in 1..size |-> <<f, k>>]

\* ------------------------------------------------------------- messages
\* What a data channel carries: JSON control messages and binary chunks.
\* A binary chunk carries no file id and no index; src and idx record, for
\* the properties only, the send loop that wrote it and that loop's
\* chunkCount at the time.  No handler reads them.
Msg(t, f, data, n, h) ==
    [type |-> t, file |-> f, data |-> data, len |-> n, hash |-> h,
     src |-> NoFile, idx |-> 0]
NoHash == <<"md5">>
FileStart(f, size) == Msg("file-start", f, << >>, size, NoHash)
ChunkMsg(f, k, data) ==
    [Msg("chunk", NoFile, data, Len(data), NoHash) EXCEPT !.src = f, !.idx = k]
FileDone(f, h) == Msg("file-done", f, << >>, 0, h)
PauseBySender(f) == Msg("pause-transfer-by-sender", f, << >>, 0, NoHash)
ResumeBySender(f) == Msg("resume-transfer-by-sender", f, << >>, 0, NoHash)
CancelTransfer(f) == Msg("cancel-transfer", f, << >>, 0, NoHash)

\* dc.send(m): appended to what the channel carries
Send(s, d, m) == [s EXCEPT !.sentLog[d] = Append(@, m)]

\* channel.readyState === 'open' guards every control message
SendIfOpen(s, d, m) == IF s.open[d] THEN Send(s, d, m) ELSE s

\* resolve() / reject() of a promise that is already settled do nothing
Resolve(p) == IF p = "pending" THEN "resolved" ELSE p
Reject(p) == IF p = "pending" THEN "rejected" ELSE p

UpKey(f, d) == <<"up", f, d>>
PrepKey(f) == <<"up", f, 0>>

\* ------------------------------------------------------------- sendBatch
\* Variant of BatchThreshold that compares with the batch size.
BatchThresholdByBatchSize(remaining) ==
    IF remaining >= BatchSize THEN LowWaterChunks ELSE 0

\* The threshold chosen at the start of a batch.
BatchThreshold(remaining) ==
    IF remaining > LowWaterChunks THEN LowWaterChunks ELSE 0

\* Variant of BatchLoop that slices from the byte count `offset` taken as
\* a chunk number.
RECURSIVE BatchLoopByOffset(_, _, _, _)
BatchLoopByOffset(s, f, d, i) ==
    LET p == Payload(f, s.fileSize[f])
        k == s.chunkCount[f][d]
        start == s.offset[f][d] * s.chunkSize
        chunk == Slice(p, start, Min(start + s.chunkSize, Len(p)))
    IN  IF i >= BatchSize \/ k >= TotalChunks(Len(p), s.chunkSize)
        THEN s
        ELSE BatchLoopByOffset([Send(s, d, ChunkMsg(f, k, chunk)) EXCEPT
                                   !.chunkCount[f][d] = @ + 1,
                                   !.offset[f][d] = @ + Len(chunk)],
                               f, d, i + 1)

\* The loop of one batch: chunk after chunk from chunkCount on, at most
\* BatchSize of them.
RECURSIVE BatchLoop(_, _, _, _)
BatchLoop(s, f, d, i) ==
    LET p == Payload(f, s.fileSize[f])
        k == s.chunkCount[f][d]
        start == k * s.chunkSize
        chunk == Slice(p, start, Min(start + s.chunkSize, Len(p)))
    IN  IF i >= BatchSize \/ k >= TotalChunks(Len(p), s.chunkSize)
        THEN s
        ELSE BatchLoop([Send(s, d, ChunkMsg(f, k, chunk)) EXCEPT
                            !.chunkCount[f][d] = @ + 1,
                            !.offset[f][d] = @ + Len(chunk)],
                       f, d, i + 1)

\* Variant of CompleteSub that leaves sendBatch as the channel's listener.
CompleteSubKeepListener(s, f, d) ==
    LET s2 == Send(s, d, FileDone(f, MD5(Payload(f, s.fileSize[f]))))
    IN  [s2 EXCEPT !.fileProgress = @ \ {UpKey(f, d)},
                   !.subPaused[f][d] = "unset",
                   !.subCancelled[f][d] = "unset",
                   !.subChannels[f] = @ \ {d},
                   !.subSendBatch[f] = @ \ {d},
                   !.promise[f][d] = Resolve(@)]

\* The end of sendBatch once every chunk is written.
CompleteSub(s, f, d) ==
    LET s1 == [s EXCEPT !.handler[d] = NoFile]
        s2 == Send(s1, d, FileDone(f, MD5(Payload(f, s.fileSize[f]))))
    IN  [s2 EXCEPT !.fileProgress = @ \ {UpKey(f, d)},
                   !.subPaused[f][d] = "unset",
                   !.subCancelled[f][d] = "unset",
                   !.subChannels[f] = @ \ {d},
                   !.subSendBatch[f] = @ \ {d},
                   !.promise[f][d] = Resolve(@)]

\* Variant of SendBatch that does not look at the paused flag.
SendBatchIgnoringPause(s, f, d) ==
    IF s.subCancelled[f][d] = "true"
    THEN [s EXCEPT !.handler[d] = NoFile, !.promise[f][d] = Resolve(@)]
    ELSE LET totalChunksCount == TotalChunks(s.fileSize[f], s.chunkSize)
             remaining == totalChunksCount - s.chunkCount[f][d]
             s1 == [s EXCEPT !.threshold[d] = BatchThreshold(remaining)]
         IN  IF remaining > 0 /\ ~s.open[d]
             THEN [s1 EXCEPT !.promise[f][d] = Reject(@)]
             ELSE LET s2 == BatchLoop(s1, f, d, 0)
                  IN  IF s2.chunkCount[f][d] >= totalChunksCount
                      THEN CompleteSub(s2, f, d)
                      ELSE s2

\* Variant of SendBatch that does not look at the cancelled flag.
SendBatchIgnoringCancel(s, f, d) ==
    IF s.subPaused[f][d] = "true"
    THEN s
    ELSE LET totalChunksCount == TotalChunks(s.fileSize[f], s.chunkSize)
             remaining == totalChunksCount - s.chunkCount[f][d]
             s1 == [s EXCEPT !.threshold[d] = BatchThreshold(remaining)]
         IN  IF remaining > 0 /\ ~s.open[d]
             THEN [s1 EXCEPT !.promise[f][d] = Reject(@)]
             ELSE LET s2 == BatchLoop(s1, f, d, 0)
                  IN  IF s2.chunkCount[f][d] >= totalChunksCount
                      THEN CompleteSub(s2, f, d)
                      ELSE s2

\* sendBatch of one (file, target): the closure of sendFileToChannel
SendBatch(s, f, d) ==
    IF s.subCancelled[f][d] = "true"
    THEN [s EXCEPT !.handler[d] = NoFile, !.promise[f][d] = Resolve(@)]
    ELSE IF s.subPaused[f][d] = "true"
    THEN s
    ELSE LET totalChunksCount == TotalChunks(s.fileSize[f], s.chunkSize)
             remaining == totalChunksCount - s.chunkCount[f][d]
             s1 == [s EXCEPT !.threshold[d] = BatchThreshold(remaining)]
         IN  IF remaining > 0 /\ ~s.open[d]
             THEN \* dc.send(chunk) throws: reject(e); return
                  [s1 EXCEPT !.promise[f][d] = Reject(@)]
             ELSE LET s2 == BatchLoop(s1, f, d, 0)
                  IN  IF s2.chunkCount[f][d] >= totalChunksCount
                      THEN CompleteSub(s2, f, d)
                      ELSE s2

\* ------------------------------------------------------ sendFileToChannel
\* One target of the fan-out: the three assignments of targets.map and the
\* promise executor of sendFileToChannel, which runs synchronously.
SendFileToChannel(s, f, d) ==
    LET s1 == [s EXCEPT !.subPaused[f][d] = "false",
                        !.subCancelled[f][d] = "false",
                        !.subChannels[f] = @ \cup {d},
                        !.promise[f][d] = "pending"]
    IN  IF ~s.open[d]
        THEN [s1 EXCEPT !.promise[f][d] = "rejected"]
        ELSE LET s2 == Send(s1, d, FileStart(f, s.fileSize[f]))
                 s3 == [s2 EXCEPT !.fileProgress = @ \cup {UpKey(f, d)},
                                  !.subSendBatch[f] = @ \cup {d},
                                  !.handler[d] = f]
             IN  SendBatch(s3, f, d)

\* handlers applied for each peer of a set, in the order of the peers' ids
RECURSIVE ForEach(_, _, _, _)
ForEach(Op(_, _, _), s, f, ds) ==
    IF ds = {} THEN s
    ELSE LET d == CHOOSE x \in ds : \A y \in ds : x <= y
         IN  ForEach(Op, Op(s, f, d), f, ds \ {d})

\* ----------------------------------------------------- processFileQueue
\* `finally` of processFileQueue: reset the flag, schedule the next run.
Finally(s, f) ==
    [s EXCEPT !.isSendingFile = FALSE,
              !.timers = IF s.fileQueue # << >> THEN @ + 1 ELSE @,
              !.run[f] = "done",
              !.finished = Append(@, f)]

\* Variant of ProcessFileQueue that does not look at isSendingFile.
ProcessFileQueueUnguarded(s) ==
    IF s.fileQueue = << >>
    THEN s
    ELSE LET f == Head(s.fileQueue)
         IN  [s EXCEPT !.isSendingFile = TRUE,
                       !.fileQueue = Tail(@),
                       !.run[f] = "reading",
                       !.fileProgress = @ \cup {PrepKey(f)}]

\* processFileQueue() up to the first await of sendFileActual
\* (file.arrayBuffer()): the head of the queue becomes the active item and
\* its "preparing" progress entry is shown.
ProcessFileQueue(s) ==
    IF s.isSendingFile \/ s.fileQueue = << >>
    THEN s
    ELSE LET f == Head(s.fileQueue)
         IN  [s EXCEPT !.isSendingFile = TRUE,
                       !.fileQueue = Tail(@),
                       !.run[f] = "reading",
                       !.fileProgress = @ \cup {PrepKey(f)}]

\* Promise.all(promises) of sendFileActual
Targets(f) == Dests
AnyRejected(f) == \E d \in Targets(f) : promise[f][d] = "rejected"
AllResolved(f) == \A d \in Targets(f) : promise[f][d] = "resolved"
Settled(f) == AnyRejected(f) \/ AllResolved(f)

\* A continuation is ready: it runs before the next event is handled.
MicrotaskPending == \E f \in Files : run[f] = "await" /\ Settled(f)

\* ------------------------------------------------------------- actions
\* sendFile(file): push, then processFileQueue() unless a file is being sent
SendFile(n) ==
    /\ ~MicrotaskPending
    /\ SameOps
    /\ nextFile <= quota
    /\ LET f == nextFile
           s1 == [St EXCEPT !.nextFile = @ + 1,
                            !.fileSize[f] = n,
                            !.run[f] = "queued",
                            !.fileQueue = Append(@, f)]
       IN  Becomes(IF ~s1.isSendingFile THEN ProcessFileQueue(s1) ELSE s1)

\* the timer set by `finally` (or by handleCancel) fires
TimerFire ==
    /\ ~MicrotaskPending
    /\ SameOps
    /\ timers > 0
    /\ Becomes(ProcessFileQueue([St EXCEPT !.timers = @ - 1]))

\* file.arrayBuffer() rejects: sendFileActual removes the "preparing" entry
\* and throws; processFileQueue logs the failure and runs `finally`.
ReadFail(f) ==
    /\ ~MicrotaskPending
    /\ SameOps
    /\ run[f] = "reading"
    /\ Becomes(Finally([St EXCEPT !.fileProgress = @ \ {PrepKey(f)},
                                  !.result[f] = "failed"], f))

\* file.arrayBuffer() resolves: the hash is computed, the control object is
\* created and the file is fanned out to every peer; sendFileActual then
\* waits for Promise.all.
ReadOk(f) ==
    /\ ~MicrotaskPending
    /\ SameOps
    /\ run[f] = "reading"
    /\ LET s1 == [St EXCEPT !.fileProgress = @ \ {PrepKey(f)},
                            !.transferControl[f] = TRUE,
                            !.run[f] = "await"]
       IN  Becomes(ForEach(SendFileToChannel, s1, f, Targets(f)))

\* The rest of sendFileActual after `await Promise.all(promises)`, and the
\* catch / finally of processFileQueue.
AwaitDone(f) ==
    /\ SameOps
    /\ run[f] = "await"
    /\ Settled(f)
    /\ IF AnyRejected(f)
       THEN Becomes(Finally([St EXCEPT !.result[f] = "failed"], f))
       ELSE IF ~transferControl[f] \/ cancelled[f]
       THEN Becomes(Finally(
                [St EXCEPT !.result[f] = "cancelled",
                           !.fileProgress = {k \in @ : ~(k[1] = "up" /\ k[2] = f)}], f))
       ELSE Becomes(Finally(
                [St EXCEPT !.transferControl[f] = FALSE,
                           !.chat[f] = @ + 1,
                           !.result[f] = "sent"], f))

\* The channel's buffer drained to the threshold: dc.onbufferedamountlow().
\* When the channel drains is the network's choice: the event may come at
\* any time while the channel is open and a listener is attached.
BufferLow(d) ==
    /\ ~MicrotaskPending
    /\ SameOps
    /\ open[d]
    /\ handler[d] # NoFile
    /\ Becomes(SendBatch(St, handler[d], d))

\* The peer's data channel closes (the peer stays in peersRef).
ChannelClose(d) ==
    /\ ~MicrotaskPending
    /\ CountOp
    /\ open[d]
    /\ Becomes([St EXCEPT !.open[d] = FALSE])

\* ------------------------------------------- pause / resume / cancel, local
\* `true` for every key the object has (Object.keys(...).forEach)
SetKeys(flags, v) == [d \in Dests |-> IF flags[d] = "unset" THEN "unset" ELSE v]

\* every(id => control.subCancelled[id] === true) over the keys of subChannels
AllCancelled(s, f) == \A k \in s.subChannels[f] : s.subCancelled[f][k] = "true"

\* fn() for one stored sendBatch
CallSendBatch(s, f, d) == IF d \in s.subSendBatch[f] THEN SendBatch(s, f, d) ELSE s

\* channel.send of pause- / resume-transfer-by-sender to one registered,
\* open channel
NotifyPause(s, f, d) ==
    IF d \in s.subChannels[f] THEN SendIfOpen(s, d, PauseBySender(f)) ELSE s
NotifyResume(s, f, d) ==
    IF d \in s.subChannels[f] THEN SendIfOpen(s, d, ResumeBySender(f)) ELSE s

\* handlePauseResume of the progress bar `up-${fileId}-${targetId}`
HandlePauseResume(f, d) ==
    /\ ~MicrotaskPending
    /\ CountOp
    /\ UpKey(f, d) \in fileProgress
    /\ transferControl[f]
    /\ IF subPaused[f][d] = "true"
       THEN Becomes(CallSendBatch(
                      NotifyResume([St EXCEPT !.subPaused[f][d] = "false"], f, d),
                      f, d))
       ELSE Becomes(NotifyPause([St EXCEPT !.subPaused[f][d] = "true"], f, d))

\* handleCancel of the progress bar `up-${fileId}-${targetId}`
HandleCancel(f, d) ==
    /\ ~MicrotaskPending
    /\ CountOp
    /\ UpKey(f, d) \in fileProgress
    /\ transferControl[f]
    /\ LET s1 == [St EXCEPT !.subCancelled[f][d] = "true"]
           s2 == IF d \in s1.subChannels[f]
                 THEN SendIfOpen(s1, d, CancelTransfer(f)) ELSE s1
           s3 == [s2 EXCEPT !.fileProgress = @ \ {UpKey(f, d)}]
       IN  IF AllCancelled(s3, f)
           THEN Becomes([s3 EXCEPT
                            !.transferControl[f] = FALSE,
                            !.isSendingFile = FALSE,
                            !.timers = IF s3.fileQueue # << >> THEN @ + 1 ELSE @])
           ELSE Becomes(s3)

\* control.pause() of the whole transfer
Pause(s, f) ==
    IF ~s.transferControl[f] THEN s
    ELSE LET s1 == [s EXCEPT !.subPaused[f] = SetKeys(@, "true")]
         IN  ForEach(NotifyPause, s1, f, s1.subChannels[f])

ControlPause(f) ==
    /\ ~MicrotaskPending
    /\ CountOp
    /\ transferControl[f]
    /\ Becomes(Pause(St, f))

\* control.resume() of the whole transfer
Resume(s, f) ==
    IF ~s.transferControl[f] THEN s
    ELSE LET s1 == [s EXCEPT !.subPaused[f] = SetKeys(@, "false")]
             s2 == ForEach(NotifyResume, s1, f, s1.subChannels[f])
         IN  ForEach(CallSendBatch, s2, f, s2.subSendBatch[f])

ControlResume(f) ==
    /\ ~MicrotaskPending
    /\ CountOp
    /\ transferControl[f]
    /\ Becomes(Resume(St, f))

\* Variant of CancelChannel that detaches the listener and tells nobody.
CancelChannelSilent(s, f, d) == [s EXCEPT !.handler[d] = NoFile]

\* one channel of control.cancel(): detach the listener, tell the receiver
CancelChannel(s, f, d) ==
    SendIfOpen([s EXCEPT !.handler[d] = NoFile], d, CancelTransfer(f))

\* Variant of Cancel that leaves the control object in the table.
CancelKeepingControl(s, f) ==
    IF ~s.transferControl[f] THEN s
    ELSE LET s1 == [s EXCEPT !.cancelled[f] = TRUE,
                             !.subCancelled[f] = SetKeys(@, "true")]
             s2 == ForEach(CallSendBatch, s1, f, s1.subSendBatch[f])
             s3 == ForEach(CancelChannel, s2, f, s2.subChannels[f])
         IN  [s3 EXCEPT
                !.fileProgress = {k \in @ : ~(k[1] = "up" /\ k[2] = f /\ k[3] # 0)}]

\* control.cancel() of the whole transfer
Cancel(s, f) ==
    IF ~s.transferControl[f] THEN s
    ELSE LET s1 == [s EXCEPT !.cancelled[f] = TRUE,
                             !.subCancelled[f] = SetKeys(@, "true")]
             s2 == ForEach(CallSendBatch, s1, f, s1.subSendBatch[f])
             s3 == ForEach(CancelChannel, s2, f, s2.subChannels[f])
         IN  [s3 EXCEPT
                !.fileProgress = {k \in @ : ~(k[1] = "up" /\ k[2] = f /\ k[3] # 0)},
                !.transferControl[f] = FALSE]

ControlCancel(f) ==
    /\ ~MicrotaskPending
    /\ CountOp
    /\ transferControl[f]
    /\ Becomes(Cancel(St, f))

\* ------------------------------------- control messages from a receiver
\* file-start of f was written to r's channel: r can hold a receive of f
HasStart(f, r) ==
    \E i \in DOMAIN sentLog[r] :
        sentLog[r][i].type = "file-start" /\ sentLog[r][i].file = f

\* A receiver that holds a receive of f and has not cancelled it can send
\* pause / resume / cancel-transfer-by-receiver with receiverId = its id.
CanSendByReceiver(f, r) == HasStart(f, r) /\ <<f, r>> \notin rcvGone

\* Variant of PauseByReceiver that pauses every destination of the file.
PauseByReceiverAll(f, r) ==
    /\ ~MicrotaskPending
    /\ CountOp
    /\ CanSendByReceiver(f, r)
    /\ transferControl[f]
    /\ Becomes([St EXCEPT !.subPaused[f] = SetKeys(@, "true")])

\* handleMessage, msg.type === 'pause-transfer-by-receiver'
OnPauseByReceiver(s, f, r) ==
    IF s.transferControl[f] THEN [s EXCEPT !.subPaused[f][r] = "true"] ELSE s

PauseByReceiver(f, r) ==
    /\ ~MicrotaskPending
    /\ CountOp
    /\ CanSendByReceiver(f, r)
    /\ transferControl[f]
    /\ Becomes(OnPauseByReceiver(St, f, r))

\* Variant of OnResumeByReceiver that clears the flag and calls nothing.
OnResumeByReceiverFlagOnly(s, f, r) ==
    IF s.transferControl[f] THEN [s EXCEPT !.subPaused[f][r] = "false"] ELSE s

\* handleMessage, msg.type === 'resume-transfer-by-receiver'
OnResumeByReceiver(s, f, r) ==
    IF s.transferControl[f]
    THEN CallSendBatch([s EXCEPT !.subPaused[f][r] = "false"], f, r)
    ELSE s

ResumeByReceiver(f, r) ==
    /\ ~MicrotaskPending
    /\ CountOp
    /\ CanSendByReceiver(f, r)
    /\ transferControl[f]
    /\ Becomes(OnResumeByReceiver(St, f, r))

\* removes every listener once all receivers have cancelled
DetachChannel(s, f, d) == [s EXCEPT !.handler[d] = NoFile]

\* handleMessage, msg.type === 'cancel-transfer-by-receiver'; the receiver
\* sends it once, so it can send nothing for the file afterwards (rcvGone)
OnCancelByReceiver(s, f, r) ==
    LET s0 == [s EXCEPT !.rcvGone = @ \cup {<<f, r>>}]
        s1 == [s0 EXCEPT !.subCancelled[f][r] = "true",
                         !.fileProgress = @ \ {UpKey(f, r)}]
    IN  IF ~s.transferControl[f]
        THEN s0
        ELSE IF AllCancelled(s1, f)
        THEN [ForEach(DetachChannel, s1, f, s1.subChannels[f])
                 EXCEPT !.transferControl[f] = FALSE]
        ELSE s1

CancelByReceiver(f, r) ==
    /\ ~MicrotaskPending
    /\ CountOp
    /\ CanSendByReceiver(f, r)
    /\ Becomes(OnCancelByReceiver(St, f, r))

\* ================================================================ receiver
\* The receiving side of one data channel (App.jsx: handleMessage,
\* handleBinaryChunk; useFileTransfer.js: initFileReceive), as functions of
\* the receiver's state:
\*   incoming  incomingFilesRef.current[remoteId], in insertion order
\*   control   transferControlRef.current[`down-${fileId}`]
\*   progress  the `down-${fileId}` keys of fileProgress
\*   chat      the file messages added to the chat, with their content
\*   alerts    the files reported by alert('File corrupted: ...')
\*   handled   how many messages of the channel have been handled
\*   toSender  the control messages written to the channel, not yet handled
\*             by the sender
\*   arrived   how many messages of the channel dc.onmessage has enqueued
\*   pending   eventQueueRef.current[remoteId]: the handlers chained on `tail`
\*             that have not started, each the position of its message
\*   current   the position of the message whose handler has started and
\*             whose promise is not settled, 0 when there is none
\*   phase     of the promise chain: "idle" (tail is resolved), "running",
\*             "rejected" (the handler's promise rejected, not yet caught)
NoControl == [present |-> FALSE, cancelled |-> FALSE, paused |-> FALSE]
NewControl == [present |-> TRUE, cancelled |-> FALSE, paused |-> FALSE]

\* ctrl.cancelled = true; delete transferControlRef.current[`down-${fileId}`]
CancelledControl(ctrl) == [ctrl EXCEPT !.present = FALSE, !.cancelled = TRUE]

RcvInit == [incoming |-> << >>,
            control |-> [f \in Files |-> NoControl],
            progress |-> {},
            chat |-> << >>,
            alerts |-> << >>,
            handled |-> 0,
            toSender |-> << >>,
            arrived |-> 0,
            pending |-> << >>,
            current |-> 0,
            phase |-> "idle"]

\* new Blob(transfer.chunks): the chunks one after the other
RECURSIVE Concat(_)
Concat(chunks) ==
    IF chunks = << >> THEN << >> ELSE Head(chunks) \o Concat(Tail(chunks))

\* position of file f's entry in incoming, 0 when it has none
IndexOf(incoming, f) ==
    IF \E i \in DOMAIN incoming : incoming[i].file = f
    THEN CHOOSE i \in DOMAIN incoming : incoming[i].file = f
    ELSE 0

\* delete incomingFilesRef.current[remoteId][fileId]
Without(incoming, f) == SelectSeq(incoming, LAMBDA e : e.file # f)

\* initFileReceive(remoteId, fileMeta).  Assigning to a key the object has
\* keeps the key's position.
InitFileReceive(r, m) ==
    LET fresh == [file |-> m.file, size |-> m.len, received |-> 0,
                  chunks |-> << >>, hasher |-> << >>]
        i == IndexOf(r.incoming, m.file)
    IN  [r EXCEPT !.incoming = IF i = 0 THEN Append(@, fresh)
                               ELSE [@ EXCEPT ![i] = fresh],
                  !.control[m.file] = NewControl,
                  !.progress = @ \cup {m.file}]

\* The loop of handleBinaryChunk from entry i on: the chunk goes to the
\* first transfer that is not cancelled and has received less than its size.
RECURSIVE ChunkLoop(_, _, _)
ChunkLoop(r, chunk, i) ==
    IF i > Len(r.incoming)
    THEN r
    ELSE LET tr == r.incoming[i]
         IN  IF r.control[tr.file].present /\ r.control[tr.file].cancelled
             THEN ChunkLoop([r EXCEPT !.incoming = Without(@, tr.file)], chunk, i)
             ELSE IF tr.received < tr.size
             THEN LET got == tr.received + chunk.len
                  IN  [r EXCEPT !.incoming[i].hasher = @ \o chunk.data,
                                !.incoming[i].chunks = Append(@, chunk.data),
                                !.incoming[i].received = got,
                                !.progress = IF got >= tr.size
                                             THEN @ \ {tr.file} ELSE @]
             ELSE ChunkLoop(r, chunk, i + 1)

\* Variant of HandleBinaryChunk that stores nothing while a receive is paused.
HandleBinaryChunkUnlessPaused(r, chunk) ==
    IF \E f \in Files : r.control[f].present /\ r.control[f].paused
    THEN r
    ELSE ChunkLoop(r, chunk, 1)

HandleBinaryChunk(r, chunk) == ChunkLoop(r, chunk, 1)

\* Variant of HashMatches that compares the lengths only.
HashMatchesLength(hasher, hash) == Len(hasher) = Len(hash[2])

\* calculatedHash === msg.hash
HashMatches(hasher, hash) == MD5(hasher) = hash

\* handleMessage, msg.type === 'file-done'
HandleFileDone(r, m) ==
    LET i == IndexOf(r.incoming, m.file)
        tr == r.incoming[i]
    IN  IF i = 0 THEN r
        ELSE IF HashMatches(tr.hasher, m.hash)
        THEN [r EXCEPT !.chat = IF tr.chunks # << >>
                                THEN Append(@, [file |-> m.file,
                                                blob |-> Concat(tr.chunks),
                                                hashed |-> tr.hasher])
                                ELSE @,
                       !.incoming = Without(@, m.file),
                       !.control[m.file] = NoControl]
        ELSE [r EXCEPT !.alerts = Append(@, m.file)]

\* handleMessage, msg.type === 'cancel-transfer'
HandleCancelTransfer(r, m) ==
    IF r.control[m.file].present
    THEN [r EXCEPT !.incoming = Without(@, m.file),
                   !.progress = @ \ {m.file},
                   !.control[m.file] = CancelledControl(@)]
    ELSE r

\* handleMessage, msg.type === 'pause- / resume-transfer-by-sender'
HandleBySender(r, m, paused) ==
    IF r.control[m.file].present
    THEN [r EXCEPT !.control[m.file].paused = paused]
    ELSE r

\* handleMessage(remoteId, data)
HandleMessage(r, m) ==
    CASE m.type = "chunk" -> HandleBinaryChunk(r, m)
      [] m.type = "file-start" -> InitFileReceive(r, m)
      [] m.type = "file-done" -> HandleFileDone(r, m)
      [] m.type = "cancel-transfer" -> HandleCancelTransfer(r, m)
      [] m.type = "pause-transfer-by-sender" -> HandleBySender(r, m, TRUE)
      [] m.type = "resume-transfer-by-sender" -> HandleBySender(r, m, FALSE)
      [] OTHER -> r

\* dc.onmessage for the next message of the channel: the messages of a
\* channel are handled one after the other, in the order they were written.
HandleNext(r, log) ==
    [HandleMessage(r, log[r.handled + 1]) EXCEPT !.handled = @ + 1]

\* The receiver after it has handled the first n messages of a channel.
RECURSIVE Drain(_, _, _)
Drain(r, log, n) ==
    IF r.handled >= n THEN r ELSE Drain(HandleNext(r, log), log, n)

Received(log, n) == Drain(RcvInit, log, n)

\* ------------------------------------------- pause / resume / cancel, remote
\* peer.dc.send of a ...-by-receiver message when the channel is open
ByReceiver(t, f) == [type |-> t, file |-> f]
RcvSend(r, isOpen, t, f) ==
    IF isOpen THEN [r EXCEPT !.toSender = Append(@, ByReceiver(t, f))] ELSE r

\* pause() of the control `down-${fileId}`
DownPause(r, isOpen, f) ==
    IF r.control[f].present
    THEN RcvSend([r EXCEPT !.control[f].paused = TRUE],
                 isOpen, "pause-transfer-by-receiver", f)
    ELSE r

\* resume() of the control `down-${fileId}`
DownResume(r, isOpen, f) ==
    IF r.control[f].present
    THEN RcvSend([r EXCEPT !.control[f].paused = FALSE],
                 isOpen, "resume-transfer-by-receiver", f)
    ELSE r

\* cancel() of the control `down-${fileId}`
DownCancel(r, isOpen, f) ==
    IF r.control[f].present
    THEN RcvSend([r EXCEPT !.incoming = Without(@, f),
                           !.progress = @ \ {f},
                           !.control[f] = CancelledControl(@)],
                 isOpen, "cancel-transfer-by-receiver", f)
    ELSE r

\* ------------------------------------------------ the signaling server
\* signaling.go.  One Hub goroutine runs the select loop of Hub.Run; every
\* connection has a serveWs call that turns into its readPump, and a
\* writePump; getRooms runs in a goroutine of its own per HTTP request.
\* The Hub is the only goroutine that takes a write lock, so its own read
\* locks never wait; its write locks wait for the getRooms readers, and a
\* waiting writer holds back new readers (sync.RWMutex).
Conns == 1 .. NumConns
Listers == 1 .. NumListers
Ids == {"u1", "u2"}
Rooms == {"r1", "r2"}

\* The requests /ws?id=..&room=.. of the run: the first connection is u1 in
\* r1, the second is u1 again, in the same room or in the other one, the
\* third is u2 in either room.
Dials ==
    {<< 1, "u1", "r1" >>} \cup {<< 2, "u1", r >> : r \in Rooms}
        \cup {<< c, "u2", r >> : c \in Conns \ {1, 2}, r \in Rooms}

\* A message; `conn` and `wrote` are not in the program: the connection the
\* message was read from (or the client it is about) and the From the
\* sending client wrote into it.
NoMsg == [type |-> "none", from |-> "", to |-> "", conn |-> 0, wrote |-> ""]

HubInit ==
    [ rooms   |-> {},                              \* keys of h.rooms
      clients |-> [r \in Rooms |-> << >>],         \* room.Clients: id -> client
      conn    |-> [c \in Conns |->
                     [id |-> "", room |-> "", at |-> "none", msg |-> NoMsg]],
      open    |-> {},                              \* websocket connections not closed
      joined  |-> {},                              \* clients the Hub has put in a room
      send    |-> [c \in Conns |-> << >>],         \* client.send, capacity SendCap
      closed  |-> {},                              \* clients whose send is closed
      pc      |-> "select",                        \* where the Hub goroutine is
      cur     |-> 0,                               \* the client of the case it runs
      froom   |-> "",                              \* room of failedClients
      failed  |-> {},                              \* failedClients
      msgs    |-> 0,                               \* client messages read so far
      list    |-> [g \in Listers |-> [at |-> "idle", todo |-> {}, room |-> ""]] ]

HubStep(h) ==
    /\ hub' = h
    /\ UNCHANGED << senderVars, ops, quota, linkVars, call >>

\* No getRooms holds h.mu / room.mu for reading.
HubFree == \A g \in Listers : hub.list[g].at = "idle"
RoomFree(r) == \A g \in Listers : ~(hub.list[g].at = "room" /\ hub.list[g].room = r)

\* The room whose write lock, and whether the hub write lock, the Hub waits for.
HubWaitsRoom(r) ==
    \/ hub.pc \in {"insert", "remove"} /\ hub.conn[hub.cur].room = r
    \/ hub.pc = "drop" /\ hub.froom = r
HubWaitsHub == hub.pc \in {"create", "delete"}

\* The same sends without the default case: the Hub waits for room in a
\* full channel.
OfferWaiting(h, room, targets, m) ==
    LET full == {c \in targets : Len(h.send[c]) >= SendCap}
    IN [h EXCEPT
          !.send = [c \in Conns |->
                      IF c \in targets \ full THEN Append(h.send[c], m) ELSE h.send[c]],
          !.pc = IF full # {} THEN "send" ELSE "select"]

\* select { case client.send <- msg: default: safeClose(client.send); failed }
\* for every client of `targets`, then the hand-over to the removal of the
\* failed ones.  A send on a closed channel panics.
Offer(h, room, targets, m) ==
    LET full == {c \in targets : Len(h.send[c]) >= SendCap}
        dead == targets \cap h.closed
    IN [h EXCEPT
          !.send = [c \in Conns |->
                      IF c \in targets \ full THEN Append(h.send[c], m) ELSE h.send[c]],
          !.closed = @ \cup full,
          !.failed = {h.conn[c].id : c \in full},
          !.froom = room,
          !.pc = IF dead # {} THEN "panic"
                 ELSE IF full # {} THEN "drop" ELSE "select"]

ClientsOf(h, room, exclude) ==
    {h.clients[room][i] : i \in DOMAIN h.clients[room] \ {exclude}}

BroadcastToRoom(h, room, m, exclude) ==
    IF room \notin h.rooms
    THEN [h EXCEPT !.pc = "select"]
    ELSE Offer(h, room, ClientsOf(h, room, exclude), m)

\* serveWs: the client object exists and `hub.register <- client` waits.
ServeWs(c, id, room) ==
    /\ hub.conn[c].at = "none"
    /\ HubStep([hub EXCEPT !.conn[c] = [id |-> id, room |-> room,
                                         at |-> "register", msg |-> NoMsg],
                           !.open = @ \cup {c}])

\* case client := <-h.register; serveWs goes on and starts the pumps.
HubRegister(c) ==
    /\ hub.pc = "select"
    /\ hub.conn[c].at = "register"
    /\ HubStep([hub EXCEPT !.conn[c].at = "up", !.pc = "create", !.cur = c])

GetOrCreateRoom ==
    /\ hub.pc = "create"
    /\ HubFree
    /\ HubStep([hub EXCEPT !.rooms = @ \cup {hub.conn[hub.cur].room},
                           !.pc = "insert"])

\* room.mu.Lock(); close and delete the old client of the id; put the new one.
RegisterInsert ==
    LET c == hub.cur
        id == hub.conn[c].id
        room == hub.conn[c].room
        old == IF id \in DOMAIN hub.clients[room] THEN {hub.clients[room][id]} ELSE {}
    IN /\ hub.pc = "insert"
       /\ RoomFree(room)
       /\ HubStep([hub EXCEPT
             !.closed = @ \cup old,
             !.clients[room] = [i \in DOMAIN @ \cup {id} |-> IF i = id THEN c ELSE @[i]],
             !.joined = @ \cup {c},
             !.pc = "greet"])

\* existing_users to the new client (a send that waits for room in the
\* channel), then user_joined to the others.
RegisterGreet ==
    LET c == hub.cur
        id == hub.conn[c].id
        room == hub.conn[c].room
        existing == DOMAIN hub.clients[room] \ {id}
        hello == [type |-> "existing_users", from |-> "server", to |-> "", conn |-> c,
                  wrote |-> ""]
        greeted == IF existing = {} THEN hub
                   ELSE [hub EXCEPT !.send[c] = Append(@, hello)]
    IN /\ hub.pc = "greet"
       /\ existing # {} => Len(hub.send[c]) < SendCap
       /\ HubStep(IF existing # {} /\ c \in hub.closed
                  THEN [hub EXCEPT !.pc = "panic"]
                  ELSE BroadcastToRoom(greeted, room,
                          [type |-> "user_joined", from |-> id, to |-> "", conn |-> c,
                           wrote |-> ""],
                          id))

\* readPump left its loop: `c.Hub.unregister <- c` waits.
ReadErr(c) ==
    /\ hub.conn[c].at = "up"
    /\ HubStep([hub EXCEPT !.conn[c].at = "unregister"])

\* case client := <-h.unregister; readPump closes the connection and ends.
HubUnregister(c) ==
    /\ hub.pc = "select"
    /\ hub.conn[c].at = "unregister"
    /\ HubStep([hub EXCEPT !.conn[c].at = "gone",
                           !.open = @ \ {c},
                           !.cur = c,
                           !.pc = IF hub.conn[c].room \in hub.rooms
                                  THEN "remove" ELSE "select"])

\* room.mu.Lock(); whoever holds the id is deleted, the leaving client's
\* channel is closed; an empty room older than five minutes goes on to
\* its deletion, otherwise user_left is announced.
UnregisterRemove(old) ==
    LET c == hub.cur
        id == hub.conn[c].id
        room == hub.conn[c].room
        rest == [i \in DOMAIN hub.clients[room] \ {id} |-> hub.clients[room][i]]
        removed == [hub EXCEPT !.clients[room] = rest, !.closed = @ \cup {c}]
    IN /\ hub.pc = "remove"
       /\ RoomFree(room)
       /\ HubStep(IF id \notin DOMAIN hub.clients[room]
                  THEN [hub EXCEPT !.pc = "select"]
                  ELSE IF DOMAIN rest = {} /\ old
                  THEN [removed EXCEPT !.pc = "delete"]
                  ELSE BroadcastToRoom(removed, room,
                          [type |-> "user_left", from |-> id, to |-> "", conn |-> c,
                           wrote |-> ""],
                          ""))

\* h.mu.Lock(); delete(h.rooms, roomID); broadcastToRoom finds no room.
UnregisterDeleteRoom ==
    /\ hub.pc = "delete"
    /\ HubFree
    /\ HubStep([hub EXCEPT !.rooms = @ \ {hub.conn[hub.cur].room},
                           !.pc = "select"])

\* failedClients are deleted from the room under room.mu.Lock().
DropFailed ==
    /\ hub.pc = "drop"
    /\ RoomFree(hub.froom)
    /\ HubStep([hub EXCEPT
          !.clients[hub.froom] = [i \in DOMAIN @ \ hub.failed |-> @[i]],
          !.failed = {},
          !.pc = "select"])

StampAsWritten(c, m) == m

\* msg.From = c.ID
Stamp(c, m) == [m EXCEPT !.from = hub.conn[c].id]

\* readPump read a message from the socket; `c.Hub.broadcast <- msg` waits.
ReadPump(c, from, to) ==
    /\ hub.conn[c].at = "up"
    /\ c \in hub.open
    /\ hub.msgs < MaxMsgs
    /\ HubStep([hub EXCEPT
          !.conn[c].at = "broadcast",
          !.conn[c].msg = Stamp(c, [type |-> "signal", from |-> from, to |-> to,
                                    conn |-> c, wrote |-> from]),
          !.msgs = @ + 1])

\* case message := <-h.broadcast: the first room found to hold message.From
\* (in the order the map yields them) is the sender's room.
HubBroadcast(c) ==
    LET m == hub.conn[c].msg
        taken == [hub EXCEPT !.conn[c].at = "up", !.conn[c].msg = NoMsg]
        found == {r \in hub.rooms : m.from \in DOMAIN hub.clients[r]}
    IN /\ hub.pc = "select"
       /\ hub.conn[c].at = "broadcast"
       /\ IF found = {}
          THEN HubStep(taken)
          ELSE \E r \in found :
                 HubStep(Offer(taken, r,
                    IF m.to # ""
                    THEN IF m.to \in DOMAIN hub.clients[r]
                         THEN {hub.clients[r][m.to]} ELSE {}
                    ELSE ClientsOf(hub, r, m.from),
                    m))

\* writePump: a message of the channel is written to the socket; a write to
\* a closed connection fails and ends the pump.
WritePump(c) ==
    /\ hub.send[c] # << >>
    /\ c \in hub.open
    /\ HubStep([hub EXCEPT !.send[c] = Tail(@)])

\* writePump finds the channel closed and closes the connection.
WritePumpClosed(c) ==
    /\ hub.send[c] = << >>
    /\ c \in hub.closed
    /\ c \in hub.open
    /\ HubStep([hub EXCEPT !.open = @ \ {c}])

\* getRooms: hub.mu.RLock(), then room by room room.mu.RLock() ..
\* RUnlock(), then the deferred hub.mu.RUnlock().
GetRooms(g) ==
    /\ hub.list[g].at = "idle"
    /\ ~HubWaitsHub
    /\ HubStep([hub EXCEPT !.list[g] = [at |-> "hub", todo |-> hub.rooms, room |-> ""]])

GetRoomsLock(g, r) ==
    /\ hub.list[g].at = "hub"
    /\ r \in hub.list[g].todo
    /\ ~HubWaitsRoom(r)
    /\ HubStep([hub EXCEPT !.list[g].at = "room", !.list[g].room = r])

GetRoomsUnlock(g) ==
    /\ hub.list[g].at = "room"
    /\ HubStep([hub EXCEPT !.list[g] = [at |-> "hub", todo |-> @.todo \ {@.room},
                                        room |-> ""]])

GetRoomsDone(g) ==
    /\ hub.list[g].at = "hub"
    /\ hub.list[g].todo = {}
    /\ HubStep([hub EXCEPT !.list[g].at = "idle"])

\* What every run of the server does, whoever connects to it.
HubRuns ==
    \/ \E c \in Conns : HubRegister(c)
    \/ GetOrCreateRoom
    \/ RegisterInsert
    \/ RegisterGreet
    \/ \E c \in Conns : ReadErr(c)
    \/ \E c \in Conns : HubUnregister(c)
    \/ \E old \in BOOLEAN : UnregisterRemove(old)
    \/ UnregisterDeleteRoom
    \/ DropFailed
    \/ \E c \in Conns, from \in Ids, to \in Ids \cup {""} : ReadPump(c, from, to)
    \/ \E c \in Conns : HubBroadcast(c)
    \/ \E c \in Conns : WritePump(c)
    \/ \E c \in Conns : WritePumpClosed(c)

\* Three connections and nobody asks for the room list.
NextHub ==
    \/ \E d \in Dials : ServeWs(d[1], d[2], d[3])
    \/ HubRuns

\* Two connections to one room, and the room list is asked for.
PairDials == {<< 1, "u1", "r1" >>, << 2, "u1", "r1" >>, << 2, "u2", "r1" >>}

NextHubLocks ==
    \/ \E d \in PairDials : ServeWs(d[1], d[2], d[3])
    \/ HubRuns
    \/ \E g \in Listers : GetRooms(g)
    \/ \E g \in Listers, r \in Rooms : GetRoomsLock(g, r)
    \/ \E g \in Listers : GetRoomsUnlock(g)
    \/ \E g \in Listers : GetRoomsDone(g)

\* ------------------------------------------------------- the call hook
\* useVideoCall.  setCallStatus / setRemoteUser change the React state;
\* callStatusRef.current and remoteUserRef.current, which the handlers
\* test, are assigned in the body of the hook, that is at the next render.
\* A handler that runs before that render sees the refs of the last one.
Users == {"a", "b"}
CallSignals == {"call-request", "call-accept", "call-reject", "call-end", "call-busy"}

CallInit ==
    [ callStatus    |-> "idle",     \* state: callStatus
      remoteUser    |-> "",         \* state: remoteUser (null is "")
      callStatusRef |-> "idle",     \* callStatusRef.current, and callStatus of the
                                    \* closures made at the last render
      remoteUserRef |-> "",         \* remoteUserRef.current
      localStream   |-> FALSE,      \* localStreamRef.current is a stream
      remoteVideo   |-> TRUE,       \* state: remoteVideoEnabled
      signals       |-> << >>,      \* what sendSignal was called with
      events        |-> 0 ]         \* signals received and user actions so far

SendSignal(k, type, to) == [k EXCEPT !.signals = Append(@, << type, to >>)]

CleanupCall(k) ==
    [k EXCEPT !.localStream = FALSE, !.callStatus = "idle", !.remoteUser = "",
              !.remoteVideo = TRUE]

\* getLocalStream resolves (ok) or rejects.
StartCallOf(k, u, ok) ==
    IF k.callStatusRef # "idle" THEN k
    ELSE IF ok
    THEN SendSignal([k EXCEPT !.callStatus = "calling", !.remoteUser = u,
                              !.localStream = TRUE],
                    "call-request", u)
    ELSE [k EXCEPT !.callStatus = "idle", !.remoteUser = ""]

HandleIncomingCall(k, from) ==
    IF k.callStatusRef # "idle"
    THEN SendSignal(k, "call-busy", from)
    ELSE [k EXCEPT !.callStatus = "incoming", !.remoteUser = from]

AcceptCallOf(k, ok) ==
    IF k.callStatusRef # "incoming" \/ k.remoteUserRef = "" THEN k
    ELSE IF ok
    THEN [SendSignal([k EXCEPT !.localStream = TRUE], "call-accept", k.remoteUserRef)
            EXCEPT !.callStatus = "connected"]
    ELSE CleanupCall(k)

HandleCallAccepted(k, from, video) ==
    IF k.callStatusRef # "calling" \/ k.remoteUserRef # from THEN k
    ELSE [k EXCEPT !.callStatus = "connected", !.remoteVideo = video]

RejectCallOf(k) ==
    CleanupCall(IF k.remoteUserRef # ""
                THEN SendSignal(k, "call-reject", k.remoteUserRef) ELSE k)

HandleCallRejected(k, from) ==
    IF k.callStatusRef = "calling" /\ k.remoteUserRef = from THEN CleanupCall(k) ELSE k

EndCallOf(k) ==
    CleanupCall(IF k.remoteUserRef # ""
                THEN SendSignal(k, "call-end", k.remoteUserRef) ELSE k)

HandleCallEnded(k, from) ==
    IF k.remoteUserRef = from THEN CleanupCall(k) ELSE k

HandleCallSignalOf(k, type, from, video) ==
    CASE type = "call-request" -> HandleIncomingCall(k, from)
      [] type = "call-accept"  -> HandleCallAccepted(k, from, video)
      [] type = "call-reject"  -> HandleCallRejected(k, from)
      [] type = "call-end"     -> HandleCallEnded(k, from)
      [] type = "call-busy"    -> CleanupCall(k)

CallStep(k) ==
    /\ call' = [k EXCEPT !.events = @ + 1]
    /\ UNCHANGED << senderVars, ops, quota, linkVars, hub >>

\* The hook function runs again: the refs take the values of the state.
Rendered(k) ==
    [k EXCEPT !.callStatusRef = k.callStatus, !.remoteUserRef = k.remoteUser]

\* What the user does runs in an event handler of React, which renders
\* before anything else runs.
StartCall(u, ok) ==
    /\ call.events < MaxCallEvents
    /\ CallStep(Rendered(StartCallOf(call, u, ok)))

AcceptCall(ok) ==
    /\ call.events < MaxCallEvents
    /\ CallStep(Rendered(AcceptCallOf(call, ok)))

RejectCall ==
    /\ call.events < MaxCallEvents
    /\ CallStep(Rendered(RejectCallOf(call)))

EndCall ==
    /\ call.events < MaxCallEvents
    /\ CallStep(Rendered(EndCallOf(call)))

\* A signal arrives in a message event of a data channel; the render that
\* its state changes ask for is a later task.  payload.video of call-accept
\* is either value.
HandleCallSignal(type, from) ==
    /\ call.events < MaxCallEvents
    /\ \E video \in BOOLEAN :
        /\ type = "call-accept" \/ video
        /\ CallStep(HandleCallSignalOf(call, type, from, video))

Render ==
    /\ Rendered(call) # call
    /\ call' = Rendered(call)
    /\ UNCHANGED << senderVars, ops, quota, linkVars, hub >>

NextCall ==
    \/ \E u \in Users, ok \in BOOLEAN : StartCall(u, ok)
    \/ \E ok \in BOOLEAN : AcceptCall(ok)
    \/ RejectCall
    \/ EndCall
    \/ \E type \in CallSignals, from \in Users : HandleCallSignal(type, from)
    \/ Render

\* ------------------------------------------------------------ the system
InitSender ==
    /\ fileQueue = << >>
    /\ isSendingFile = FALSE
    /\ nextFile = 1
    /\ timers = 0
    /\ run = [f \in Files |-> "new"]
    /\ result = [f \in Files |-> "none"]
    /\ fileSize = [f \in Files |-> 0]
    /\ transferControl = [f \in Files |-> FALSE]
    /\ cancelled = [f \in Files |-> FALSE]
    /\ subPaused = [f \in Files |-> [d \in Dests |-> "unset"]]
    /\ subCancelled = [f \in Files |-> [d \in Dests |-> "unset"]]
    /\ subChannels = [f \in Files |-> {}]
    /\ subSendBatch = [f \in Files |-> {}]
    /\ chunkCount = [f \in Files |-> [d \in Dests |-> 0]]
    /\ offset = [f \in Files |-> [d \in Dests |-> 0]]
    /\ promise = [f \in Files |-> [d \in Dests |-> "none"]]
    /\ handler = [d \in Dests |-> NoFile]
    /\ threshold = [d \in Dests |-> 0]
    /\ fileProgress = {}
    /\ sentLog = [d \in Dests |-> << >>]
    /\ chat = [f \in Files |-> 0]
    /\ finished = << >>
    /\ rcvGone = {}
    /\ ops = 0
    /\ hub = HubInit
    /\ call = CallInit

\* No simulated channel: the receivers are not part of the run.
NoLink ==
    /\ rcv = [d \in Dests |-> RcvInit]
    /\ tampered = {}

Init ==
    /\ InitSender
    /\ open \in [Dests -> BOOLEAN]
    /\ chunkSize = ChunkSize
    /\ quota = MainFiles
    /\ NoLink

Next ==
    \/ \E n \in FileSizes : SendFile(n)
    \/ TimerFire
    \/ \E f \in Files : ReadFail(f)
    \/ \E f \in Files : ReadOk(f)
    \/ \E f \in Files : AwaitDone(f)
    \/ \E d \in Dests : BufferLow(d)
    \/ \E d \in Dests : ChannelClose(d)
    \/ \E f \in Files, d \in Dests : HandlePauseResume(f, d)
    \/ \E f \in Files, d \in Dests : HandleCancel(f, d)
    \/ \E f \in Files : ControlPause(f)
    \/ \E f \in Files : ControlResume(f)
    \/ \E f \in Files : ControlCancel(f)
    \/ \E f \in Files, r \in Dests : PauseByReceiver(f, r)
    \/ \E f \in Files, r \in Dests : ResumeByReceiver(f, r)
    \/ \E f \in Files, r \in Dests : CancelByReceiver(f, r)

Spec == Init /\ [][Next]_vars

\* The queue when nothing is cancelled: the user sends NumFiles files and
\* transfers are paused and resumed, and channels close, but no transfer
\* or sub-transfer is cancelled.
InitQueue ==
    /\ InitSender
    /\ open \in [Dests -> BOOLEAN]
    /\ chunkSize = ChunkSize
    /\ quota = NumFiles
    /\ NoLink

NextQueue ==
    \/ \E n \in FileSizes : SendFile(n)
    \/ TimerFire
    \/ \E f \in Files : ReadFail(f)
    \/ \E f \in Files : ReadOk(f)
    \/ \E f \in Files : AwaitDone(f)
    \/ \E d \in Dests : BufferLow(d)
    \/ \E d \in Dests : ChannelClose(d)
    \/ \E f \in Files, d \in Dests : HandlePauseResume(f, d)
    \/ \E f \in Files, r \in Dests : PauseByReceiver(f, r)
    \/ \E f \in Files, r \in Dests : ResumeByReceiver(f, r)

SpecQueue == InitQueue /\ [][NextQueue]_vars

\* ================================================== the simulated channel
\* Sender, channel and receiver together: the files are short (one batch),
\* every channel is open, nothing is paused or cancelled.  What the sender
\* wrote to a channel waits in sentLog until the receiver handles it; until
\* then the channel may alter a byte of a chunk or lose a chunk.
LinkSizes == 1..MaxLen

InitLink ==
    /\ InitSender
    /\ open = [d \in Dests |-> TRUE]
    /\ chunkSize \in 1..MaxChunk
    /\ quota = LinkFiles
    /\ NoLink

\* dc.onmessage at peer d for the next message of its channel
Deliver(d) ==
    /\ rcv[d].handled < Len(sentLog[d])
    /\ rcv' = [rcv EXCEPT ![d] = HandleNext(@, sentLog[d])]
    /\ UNCHANGED << senderVars, ops, quota, sideVars, tampered >>

\* a chunk that is still in flight to d
InFlight(d, i) ==
    /\ i \in DOMAIN sentLog[d]
    /\ i > rcv[d].handled
    /\ sentLog[d][i].type = "chunk"

\* a byte that no payload contains
Flipped(b) == <<NoFile, b[2]>>

\* The channel alters byte j of the in-flight chunk i.
FlipByte(d, i, j) ==
    /\ ~MicrotaskPending
    /\ ops < MaxTamper
    /\ InFlight(d, i)
    /\ j \in DOMAIN sentLog[d][i].data
    /\ sentLog[d][i].data[j][1] # NoFile
    /\ Becomes([St EXCEPT !.sentLog[d][i].data[j] = Flipped(@)])
    /\ tampered' = tampered \cup {<<d, sentLog[d][i].src>>}
    /\ ops' = ops + 1
    /\ UNCHANGED << quota, sideVars, rcv >>

\* The channel loses the in-flight chunk i.
DropChunk(d, i) ==
    /\ ~MicrotaskPending
    /\ ops < MaxTamper
    /\ InFlight(d, i)
    /\ Becomes([St EXCEPT !.sentLog[d] =
                    SubSeq(@, 1, i - 1) \o SubSeq(@, i + 1, Len(@))])
    /\ tampered' = tampered \cup {<<d, sentLog[d][i].src>>}
    /\ ops' = ops + 1
    /\ UNCHANGED << quota, sideVars, rcv >>

NextLink ==
    \/ \E n \in LinkSizes : SendFile(n)
    \/ TimerFire
    \/ \E f \in Files : ReadOk(f)
    \/ \E f \in Files : AwaitDone(f)
    \/ \E d \in Dests : Deliver(d)
    \/ \E d \in Dests : \E i \in DOMAIN sentLog[d] :
          \E j \in DOMAIN sentLog[d][i].data : FlipByte(d, i, j)
    \/ \E d \in Dests : \E i \in DOMAIN sentLog[d] : DropChunk(d, i)

SpecLink == InitLink /\ [][NextLink]_vars

\* ==================================================== the receiver's controls
\* Sender, channel and receivers together, over a reliable channel: files
\* of one chunk and of more than one batch, channels that may be closed at
\* the start, and receivers that pause, resume and cancel from the progress
\* bar `down-${fileId}`.  The ...-by-receiver messages wait in toSender until
\* the sender handles them.

\* handlePauseResume of the progress bar `down-${fileId}` at peer d
RcvHandlePauseResume(d, f) ==
    /\ ops < MaxOps
    /\ f \in rcv[d].progress
    /\ rcv' = [rcv EXCEPT ![d] = IF @.control[f].paused
                                 THEN DownResume(@, open[d], f)
                                 ELSE DownPause(@, open[d], f)]
    /\ ops' = ops + 1
    /\ UNCHANGED << senderVars, quota, sideVars, tampered >>

\* handleCancel of the progress bar `down-${fileId}` at peer d
RcvHandleCancel(d, f) ==
    /\ ops < MaxOps
    /\ f \in rcv[d].progress
    /\ rcv' = [rcv EXCEPT ![d] = DownCancel(@, open[d], f)]
    /\ ops' = ops + 1
    /\ UNCHANGED << senderVars, quota, sideVars, tampered >>

\* handleMessage at the sender for a ...-by-receiver message of peer r
OnByReceiver(s, m, r) ==
    CASE m.type = "pause-transfer-by-receiver" -> OnPauseByReceiver(s, m.file, r)
      [] m.type = "resume-transfer-by-receiver" -> OnResumeByReceiver(s, m.file, r)
      [] m.type = "cancel-transfer-by-receiver" -> OnCancelByReceiver(s, m.file, r)

\* dc.onmessage at the sender for the next message of peer r
FromReceiver(r) ==
    /\ ~MicrotaskPending
    /\ rcv[r].toSender # << >>
    /\ Becomes(OnByReceiver(St, Head(rcv[r].toSender), r))
    /\ rcv' = [rcv EXCEPT ![r].toSender = Tail(@)]
    /\ UNCHANGED << ops, quota, sideVars, tampered >>

\* The peers whose receiving side is part of the run: the first one.  What
\* is written to the other channels is not read.
Followed == {d \in Dests : \A e \in Dests : d <= e}

InitRecv ==
    /\ InitSender
    /\ open \in [Dests -> BOOLEAN]
    /\ chunkSize = ChunkSize
    /\ quota = MainFiles
    /\ NoLink

NextRecv ==
    \/ \E n \in FileSizes : SendFile(n)
    \/ TimerFire
    \/ \E f \in Files : ReadOk(f)
    \/ \E f \in Files : AwaitDone(f)
    \/ \E d \in Dests : BufferLow(d)
    \/ \E d \in Followed : Deliver(d)
    \/ \E d \in Followed, f \in Files : RcvHandlePauseResume(d, f)
    \/ \E d \in Followed, f \in Files : RcvHandleCancel(d, f)
    \/ \E r \in Followed : FromReceiver(r)

SpecRecv == InitRecv /\ [][NextRecv]_vars

\* ================================================ controls on both sides
\* Sender and receiver both pause, resume and cancel: every channel is open,
\* the sender uses control.pause / resume / cancel and the progress bars
\* `up-${fileId}-${targetId}`, the followed receiver its progress bar
\* `down-${fileId}`.  BothFiles files are sent, one after the other by
\* the user: no file waits in the queue, so processFileQueue sets no timer.
InitBoth ==
    /\ InitSender
    /\ open = [d \in Dests |-> TRUE]
    /\ chunkSize = ChunkSize
    /\ quota = BothFiles
    /\ NoLink

NextBoth ==
    \/ \E n \in FileSizes : SendFile(n)
    \/ \E f \in Files : ReadOk(f)
    \/ \E f \in Files : AwaitDone(f)
    \/ \E d \in Dests : BufferLow(d)
    \/ \E d \in Followed : Deliver(d)
    \/ \E d \in Followed, f \in Files : RcvHandlePauseResume(d, f)
    \/ \E d \in Followed, f \in Files : RcvHandleCancel(d, f)
    \/ \E r \in Followed : FromReceiver(r)
    \/ \E f \in Files : ControlPause(f)
    \/ \E f \in Files : ControlResume(f)
    \/ \E f \in Files : ControlCancel(f)
    \/ \E f \in Files, d \in Dests : HandlePauseResume(f, d)

SpecBoth == InitBoth /\ [][NextBoth]_vars

\* ======================================================== the event queue
\* createEventQueue and dc.onmessage, step by step: a message arrives and
\* its handler is chained on `tail`; the handler starts when the chain before
\* it has settled; its promise resolves, or rejects and is caught.  When a
\* promise settles relative to the next arrival is left open.

\* Variant of Enqueue that puts the handler in front of the waiting ones.
EnqueueFront(q, h) == <<h>> \o q

\* enqueue(handler): tail = tail.then(handler).catch(...)
Enqueue(q, h) == Append(q, h)

\* dc.onmessage at peer d for the next message of its channel
Arrive(d) ==
    /\ rcv[d].arrived < Len(sentLog[d])
    /\ rcv' = [rcv EXCEPT ![d].arrived = @ + 1,
                          ![d].pending = Enqueue(@, rcv[d].arrived + 1)]
    /\ UNCHANGED << senderVars, ops, quota, sideVars, tampered >>

\* tail.then(handler): the chain before the handler has settled
CanStart(r) == r.phase = "idle" /\ r.pending # << >>

\* handleMessage(remoteId, e.data) runs: nothing in it waits for anything
\* (no writer is ever created), so the whole effect is there when it returns
\* its promise.
StartHandler(d) ==
    /\ CanStart(rcv[d])
    /\ LET i == Head(rcv[d].pending)
       IN  rcv' = [rcv EXCEPT ![d] = [HandleMessage(@, sentLog[d][i]) EXCEPT
                                         !.pending = Tail(@),
                                         !.current = i,
                                         !.phase = "running"]]
    /\ UNCHANGED << senderVars, ops, quota, sideVars, tampered >>

\* The handler throws, or returns a promise that rejects.
ThrowHandler(d) ==
    /\ CanStart(rcv[d])
    /\ ops < MaxTamper
    /\ rcv' = [rcv EXCEPT ![d].pending = Tail(@),
                          ![d].current = Head(rcv[d].pending),
                          ![d].phase = "rejected"]
    /\ ops' = ops + 1
    /\ UNCHANGED << senderVars, quota, sideVars, tampered >>

\* The handler's promise resolves and `tail` with it.
FinishHandler(d) ==
    /\ rcv[d].phase = "running"
    /\ rcv' = [rcv EXCEPT ![d].handled = @ + 1,
                          ![d].current = 0,
                          ![d].phase = "idle"]
    /\ UNCHANGED << senderVars, ops, quota, sideVars, tampered >>

\* Variant of Caught for a chain without .catch: the rejection stays.
Uncaught(r) == r

\* .catch(err => console.error('EventQueue error:', err)): `tail` resolves
Caught(r) == [r EXCEPT !.handled = @ + 1, !.current = 0, !.phase = "idle"]

CatchError(d) ==
    /\ rcv[d].phase = "rejected"
    /\ rcv' = [rcv EXCEPT ![d] = Caught(@)]
    /\ UNCHANGED << senderVars, ops, quota, sideVars, tampered >>

NextEvents ==
    \/ \E n \in LinkSizes : SendFile(n)
    \/ TimerFire
    \/ \E f \in Files : ReadOk(f)
    \/ \E f \in Files : AwaitDone(f)
    \/ \E d \in Followed : Arrive(d)
    \/ \E d \in Followed : StartHandler(d)
    \/ \E d \in Followed : ThrowHandler(d)
    \/ \E d \in Followed : FinishHandler(d)
    \/ \E d \in Followed : CatchError(d)

SpecEvents == InitLink /\ [][NextEvents]_vars

\* Promise reactions are microtasks: a handler that can start does start, a
\* settled promise is passed on, a rejection reaches its .catch.
SpecEventsFair ==
    /\ SpecEvents
    /\ \A d \in Followed : WF_vars(StartHandler(d) \/ ThrowHandler(d))
    /\ \A d \in Followed : WF_vars(FinishHandler(d))
    /\ \A d \in Followed : WF_vars(CatchError(d))

\* ======================================================= tmp.jsx, the queue
\* frontend/src/tmp.jsx holds a second copy of the queue and of the send
\* loop.  Its processFileQueue awaits sendFileActual without try / finally.
\* The model follows one file at a time through that copy, for files that
\* fit in one batch (the promise of sendFileToChannel is then settled by
\* the first sendBatch() call); pause and cancel are left out.
LegacySizes == {1, ChunkSize + 1}

\* targetDCs.forEach(dc => dc.send(JSON.stringify(meta)))
LegacySendMeta(s, f, d) == Send(s, d, FileStart(f, s.fileSize[f]))

\* the channels sendFileActual chose: those the meta was written to
LegacyTargets(f) == {d \in Dests : HasStart(f, d)}

\* The loop of sendBatch in tmp.jsx: `offset` counts chunks; on the last
\* chunk the listener is removed, the sub-control deleted, the promise
\* resolved.
RECURSIVE LegacyBatchLoop(_, _, _, _)
LegacyBatchLoop(s, f, d, i) ==
    LET p == Payload(f, s.fileSize[f])
        totalChunks == TotalChunks(s.fileSize[f], s.chunkSize)
        k == s.offset[f][d]
        start == k * s.chunkSize
        chunk == Slice(p, start, Min(start + s.chunkSize, Len(p)))
        s1 == [Send(s, d, ChunkMsg(f, k, chunk)) EXCEPT !.offset[f][d] = @ + 1]
    IN  IF i >= BatchSize \/ k >= totalChunks
        THEN s
        ELSE IF k + 1 >= totalChunks
        THEN [s1 EXCEPT !.handler[d] = NoFile,
                        !.subPaused[f][d] = "unset",
                        !.subCancelled[f][d] = "unset",
                        !.subChannels[f] = @ \ {d},
                        !.subSendBatch[f] = @ \ {d},
                        !.promise[f][d] = Resolve(@)]
        ELSE LegacyBatchLoop(s1, f, d, i + 1)

\* sendFileToChannel of tmp.jsx: the control object is created on first
\* use, the target registered, the listener set, sendBatch() called.
LegacySendFileToChannel(s, f, d) ==
    LET s1 == [s EXCEPT !.transferControl[f] = TRUE,
                        !.subPaused[f][d] = "false",
                        !.subCancelled[f][d] = "false",
                        !.subChannels[f] = @ \cup {d},
                        !.subSendBatch[f] = @ \cup {d},
                        !.promise[f][d] = "pending",
                        !.handler[d] = f,
                        !.threshold[d] = BatchThreshold(
                            TotalChunks(s.fileSize[f], s.chunkSize))]
    IN  LegacyBatchLoop(s1, f, d, 0)

\* processFileQueue of tmp.jsx up to the first await of sendFileActual.
\* With no open channel sendFileActual returns after the alert, and
\* processFileQueue goes on to reset the flag.
LegacyProcessFileQueue(s) ==
    IF s.isSendingFile \/ s.fileQueue = << >>
    THEN s
    ELSE LET f == Head(s.fileQueue)
             s1 == [s EXCEPT !.isSendingFile = TRUE, !.fileQueue = Tail(@)]
             targets == {d \in Dests : s.open[d]}
         IN  IF targets = {}
             THEN [s1 EXCEPT !.isSendingFile = FALSE,
                             !.timers = IF s1.fileQueue # << >> THEN @ + 1 ELSE @,
                             !.run[f] = "done",
                             !.result[f] = "noTargets",
                             !.finished = Append(@, f)]
             ELSE [ForEach(LegacySendMeta, s1, f, targets) EXCEPT
                      !.run[f] = "reading"]

LegacySettled(f) == \A d \in LegacyTargets(f) : promise[f][d] = "resolved"
LegacyMicrotaskPending == \E f \in Files : run[f] = "await" /\ LegacySettled(f)

\* sendFile(file) of tmp.jsx
LegacySendFile(n) ==
    /\ ~LegacyMicrotaskPending
    /\ SameOps
    /\ nextFile <= quota
    /\ LET f == nextFile
           s1 == [St EXCEPT !.nextFile = @ + 1,
                            !.fileSize[f] = n,
                            !.run[f] = "queued",
                            !.fileQueue = Append(@, f)]
       IN  Becomes(IF ~s1.isSendingFile THEN LegacyProcessFileQueue(s1) ELSE s1)

\* setTimeout(() => processFileQueue(), 100) of tmp.jsx fires
LegacyTimerFire ==
    /\ ~LegacyMicrotaskPending
    /\ SameOps
    /\ timers > 0
    /\ Becomes(LegacyProcessFileQueue([St EXCEPT !.timers = @ - 1]))

\* file.arrayBuffer() rejects: the exception leaves sendFileActual and
\* processFileQueue; the statements after the await do not run.
LegacyReadFail(f) ==
    /\ ~LegacyMicrotaskPending
    /\ SameOps
    /\ run[f] = "reading"
    /\ Becomes([St EXCEPT !.run[f] = "done",
                          !.result[f] = "failed",
                          !.finished = Append(@, f)])

\* file.arrayBuffer() resolves: hash, progress entries, fan-out
LegacyReadOk(f) ==
    /\ ~LegacyMicrotaskPending
    /\ SameOps
    /\ run[f] = "reading"
    /\ LET s1 == [St EXCEPT !.run[f] = "await",
                            !.fileProgress =
                                @ \cup {UpKey(f, d) : d \in LegacyTargets(f)}]
       IN  Becomes(ForEach(LegacySendFileToChannel, s1, f, LegacyTargets(f)))

\* dc.send of file-done in tmp.jsx
LegacySendDone(s, f, d) == Send(s, d, FileDone(f, MD5(Payload(f, s.fileSize[f]))))

\* after `await Promise.all`: file-done to every target, progress cleared,
\* the file added to the chat; then the rest of processFileQueue.
LegacyAwaitDone(f) ==
    /\ SameOps
    /\ run[f] = "await"
    /\ LegacySettled(f)
    /\ LET s1 == ForEach(LegacySendDone, St, f, LegacyTargets(f))
       IN  Becomes([s1 EXCEPT
                      !.fileProgress = {k \in @ : ~(k[1] = "up" /\ k[2] = f)},
                      !.chat[f] = @ + 1,
                      !.result[f] = "sent",
                      !.isSendingFile = FALSE,
                      !.timers = IF s1.fileQueue # << >> THEN @ + 1 ELSE @,
                      !.run[f] = "done",
                      !.finished = Append(@, f)])

NextLegacy ==
    \/ \E n \in LegacySizes : LegacySendFile(n)
    \/ LegacyTimerFire
    \/ \E f \in Files : LegacyReadFail(f)
    \/ \E f \in Files : LegacyReadOk(f)
    \/ \E f \in Files : LegacyAwaitDone(f)

SpecLegacy == InitQueue /\ [][NextLegacy]_vars

\* ============================================================== properties
\* What the peer d holds once it has handled everything written to its
\* channel (the channel is ordered and reliable; the peer itself does not
\* pause or cancel).
ReceiverOf(d) == Received(sentLog[d], Len(sentLog[d]))

\* The sub-transfer of f to d wrote its file-done: every chunk is out.
Completed(f, d) ==
    \E i \in DOMAIN sentLog[d] :
        sentLog[d][i].type = "file-done" /\ sentLog[d][i].file = f

\* The send loop of f to d can still write chunks: it is the channel's
\* listener, the channel is open, the sub-transfer is not cancelled and
\* chunks remain.
LiveLoop(f, d) ==
    /\ handler[d] = f
    /\ open[d]
    /\ subCancelled[f][d] = "false"
    /\ chunkCount[f][d] < TotalChunks(fileSize[f], chunkSize)

\* f is dequeued and being read or sent, or one of its loops is live
Active(f) == run[f] \in {"reading", "await"} \/ \E d \in Dests : LiveLoop(f, d)

\* C1: in every reachable state at most one locally originated file
\* transfer is active: a later file is never dequeued while a send loop of
\* an earlier file can still send chunks.
C1_AtMostOneActive == \A f, g \in Files : Active(f) /\ Active(g) => f = g

C3_FailureDoesNotBlock ==
    \A f \in Files :
        result[f] = "failed" =>
            \/ \E g \in Files : run[g] \in {"reading", "await"}
            \/ ~isSendingFile /\ (fileQueue # << >> => timers > 0)

\* peer d reported file f verified / corrupted; handled its file-done
Verified(d, f) == \E i \in DOMAIN rcv[d].chat : rcv[d].chat[i].file = f
Corrupted(d, f) == \E i \in DOMAIN rcv[d].alerts : rcv[d].alerts[i] = f
DoneHandled(d, f) ==
    \E i \in 1..rcv[d].handled :
        sentLog[d][i].type = "file-done" /\ sentLog[d][i].file = f

\* C6: a receiver reports a transfer verified only if the bytes it folded
\* into its running hash, in arrival order, are exactly the sender's
\* payload; if a chunk of the transfer was delivered with a byte altered
\* or was lost, handling file-done reports the corruption error and the
\* transfer is never verified.
C6_VerifiedOnlyIfIntact ==
    \A d \in Dests :
        /\ \A i \in DOMAIN rcv[d].chat :
              rcv[d].chat[i].hashed =
                  Payload(rcv[d].chat[i].file, fileSize[rcv[d].chat[i].file])
        /\ \A f \in Files :
              <<d, f>> \in tampered =>
                  /\ ~Verified(d, f)
                  /\ DoneHandled(d, f) => Corrupted(d, f)

\* C6 witness: the same receiver reported a file whose chunk was altered
\* or lost as corrupted and another file as verified.
C6_Witness ==
    \E d \in Dests, f, g \in Files :
        /\ <<d, f>> \in tampered
        /\ Corrupted(d, f)
        /\ Verified(d, g)

\* the binary chunks of file f written to d's channel, in order
ChunksOf(f, d) ==
    SelectSeq(sentLog[d], LAMBDA m : m.type = "chunk" /\ m.src = f)

\* chunk number k (from 0) of a payload cut into chunks of c bytes
ChunkOf(p, k, c) == Slice(p, k * c, k * c + c)

\* C5: for every destination of every transfer, the chunks written to the
\* destination's channel are exactly chunk 0, 1, 2, ... of the payload, in
\* increasing order, with no gap and no duplicate, however buffer-low
\* events, pauses, resumes and cancels interleave.
C5_ChunksInOrder ==
    \A f \in Files, d \in Dests :
        LET cs == ChunksOf(f, d)
        IN  /\ Len(cs) = chunkCount[f][d]
            /\ \A i \in 1..Len(cs) :
                /\ cs[i].idx = i - 1
                /\ cs[i].data = ChunkOf(Payload(f, fileSize[f]), i - 1, chunkSize)

\* C8: for a payload P and a chunk size C with 1 <= C <= len(P), the
\* sender writes ceil(len(P) / C) chunks in the original order, each of C
\* bytes except possibly the last, and the chunks a receiver stored, put
\* together in arrival order, are P (on a channel that altered nothing).
C8_ChunkRoundTrip ==
    \A f \in Files, d \in Dests :
        LET P == Payload(f, fileSize[f])
            C == chunkSize
            cs == ChunksOf(f, d)
            n == Len(cs)
        IN  C <= Len(P) /\ (\A g \in Files : <<d, g>> \notin tampered) =>
              /\ Completed(f, d) =>
                    /\ n * C >= Len(P) /\ (n - 1) * C < Len(P)
                    /\ \A i \in 1..n :
                          /\ cs[i].idx = i - 1
                          /\ Len(cs[i].data) =
                                IF i < n THEN C ELSE Len(P) - (n - 1) * C
                    /\ Concat([i \in 1..n |-> cs[i].data]) = P
              /\ \A i \in DOMAIN rcv[d].incoming :
                    rcv[d].incoming[i].file = f
                    /\ rcv[d].incoming[i].received >= rcv[d].incoming[i].size
                        => Concat(rcv[d].incoming[i].chunks) = P
              /\ \A i \in DOMAIN rcv[d].chat :
                    rcv[d].chat[i].file = f => rcv[d].chat[i].blob = P

\* C8 witness: a receiver put together a file of several chunks whose last
\* chunk is short.
C8_Witness ==
    \E d \in Dests : \E i \in DOMAIN rcv[d].chat :
        /\ Len(rcv[d].chat[i].blob) > chunkSize
        /\ Len(rcv[d].chat[i].blob) % chunkSize # 0

\* C5 witness: a transfer that was paused by its receiver after the first
\* batch went on and wrote its last chunk.
C5_Witness ==
    \E f \in Files, d \in Dests :
        /\ Completed(f, d)
        /\ chunkCount[f][d] > BatchSize
        /\ ops >= 2

\* a pause, resume or cancel addressed to destination b of file f
AddressedTo(f, b) ==
    \/ HandlePauseResume(f, b)
    \/ HandleCancel(f, b)
    \/ PauseByReceiver(f, b)
    \/ ResumeByReceiver(f, b)
    \/ CancelByReceiver(f, b)

\* C4: a pause, resume or cancel addressed to destination b leaves the next
\* chunk index, the bytes sent, the paused flag and the cancelled flag of
\* every other destination a of the file unchanged, writes nothing to a's
\* channel, and a loop of a that could send before can still send after.
C4_OtherDestinationsUntouched ==
    [][\A f \in Files, b \in Dests :
          AddressedTo(f, b) =>
              \A a \in Dests \ {b} :
                  /\ chunkCount'[f][a] = chunkCount[f][a]
                  /\ offset'[f][a] = offset[f][a]
                  /\ subPaused'[f][a] = subPaused[f][a]
                  /\ subCancelled'[f][a] = subCancelled[f][a]
                  /\ sentLog'[a] = sentLog[a]
                  /\ (LiveLoop(f, a) => LiveLoop(f, a)')]_vars

\* C4 witness: b was cancelled in mid-stream and a, untouched, completed.
C4_Witness ==
    \E f \in Files, a, b \in Dests :
        /\ a # b
        /\ subCancelled[f][b] = "true"
        /\ 0 < chunkCount[f][b]
        /\ chunkCount[f][b] < chunkCount[f][a]
        /\ Completed(f, a)

\* C9: a finished transfer has the result Sent, with the file in the
\* sender's chat, only when at least one destination's sub-transfer
\* completed, and a transfer whose destinations were cancelled one by one
\* has the result Cancelled, with no success record, only when none did.
C9_SentIffCompleted ==
    \A f \in Files :
        /\ result[f] = "sent" => chat[f] = 1 /\ \E d \in Dests : Completed(f, d)
        /\ result[f] = "cancelled" /\ ~cancelled[f] =>
               chat[f] = 0 /\ ~\E d \in Dests : Completed(f, d)

\* every destination of the active transfer f was cancelled on its own
AllCancelledIndividually(f) ==
    /\ run[f] = "await"
    /\ ~cancelled[f]
    /\ \A d \in Targets(f) : subCancelled[f][d] = "true"

\* C10 (finite form): once every destination of the active transfer was
\* cancelled individually, the transfer can still reach its terminal
\* state: its Promise.all is settled, or a listener that will settle a
\* pending promise is still attached to an open channel.
C10_CancelledCanTerminate ==
    \A f \in Files :
        AllCancelledIndividually(f) =>
            \/ Settled(f)
            \/ \E d \in Dests : promise[f][d] = "pending" /\ handler[d] = f /\ open[d]

\* C7: whenever every chunk of a transfer is delivered unmodified and in
\* order, the receiver's handling of file-done reports the file verified
\* and raises no corruption error.
C7_IntactDeliveryVerifies ==
    \A d \in Dests :
        LET r == ReceiverOf(d)
        IN  \A f \in Files :
                Completed(f, d) /\ <<f, d>> \notin rcvGone =>
                    /\ \A i \in DOMAIN r.alerts : r.alerts[i] # f
                    /\ \E i \in DOMAIN r.chat : r.chat[i].file = f

\* ------------------------------------------------------------------ C11
\* What the sender wrote to d for file f: its chunks and its file-done.
FileTraffic(f, d) ==
    SelectSeq(sentLog[d], LAMBDA m : \/ m.type = "chunk" /\ m.src = f
                                     \/ m.type = "file-done" /\ m.file = f)

\* One whole-transfer cancel() of f, taken while sendFileActual of f waits
\* for its sub-transfers.
CancelsActive(f) ==
    /\ run[f] = "await"
    /\ transferControl[f]
    /\ ~cancelled[f]
    /\ cancelled'[f]

\* The state right after cancel(): every sub-transfer that has not completed
\* has its cancelled flag set and its promise resolved, no registered channel
\* keeps a buffer-low listener, and exactly the open registered channels got
\* one cancel-transfer.
CancelEffect(f) ==
    /\ \A d \in Dests :
          subCancelled[f][d] # "unset" =>
              /\ subCancelled'[f][d] = "true"
              /\ promise'[f][d] = "resolved"
    /\ \A d \in subChannels[f] :
          /\ handler'[d] = NoFile
          /\ sentLog'[d] = IF open[d]
                           THEN Append(sentLog[d], CancelTransfer(f))
                           ELSE sentLog[d]
    /\ AllResolved(f)'
    /\ ~transferControl'[f]

\* C11: after the whole-transfer cancel() of an active transfer every
\* remaining sub-transfer is flagged cancelled and its completion signalled,
\* the buffer-low listener is detached from every destination channel,
\* cancel-transfer goes to every open destination, no chunk and no file-done
\* of the file is written afterwards, and the transfer ends "cancelled"
\* without a chat record.
C11_WholeCancel ==
    [][\A f \in Files :
          /\ CancelsActive(f) => CancelEffect(f)
          /\ cancelled[f] =>
                \A d \in Dests : FileTraffic(f, d)' = FileTraffic(f, d)
          /\ (cancelled[f] /\ run[f] = "await" /\ run'[f] = "done") =>
                (result'[f] = "cancelled" /\ chat'[f] = 0)]_vars

\* A transfer cancelled as a whole in mid-stream (chunks were written, chunks
\* remained) has ended "cancelled".
C11_Witness ==
    \E f \in Files :
        /\ cancelled[f]
        /\ result[f] = "cancelled"
        /\ \E d \in Dests :
              /\ chunkCount[f][d] > 0
              /\ chunkCount[f][d] < TotalChunks(fileSize[f], chunkSize)
              /\ \E i \in DOMAIN sentLog[d] : sentLog[d][i] = CancelTransfer(f)

\* ------------------------------------------------------------------ C12
\* C12: once the cancelled flag of the sub-transfer (f, d) is set, by the
\* whole-transfer cancel, the progress bar's cancel or
\* cancel-transfer-by-receiver, the flag stays set and no step (buffer-low,
\* resume by the sender or by the receiver, ...) writes another chunk or a
\* file-done of f to d's channel.
C12_NoTrafficAfterSubCancel ==
    [][\A f \in Files, d \in Dests :
          subCancelled[f][d] = "true" =>
              /\ subCancelled'[f][d] = "true"
              /\ FileTraffic(f, d)' = FileTraffic(f, d)]_vars

\* The send loop of a sub-transfer cancelled on its own in mid-stream was
\* called again (buffer-low or resume) and only signalled its completion.
C12_Witness ==
    \E f \in Files, d \in Dests :
        /\ subCancelled[f][d] = "true"
        /\ ~cancelled[f]
        /\ promise[f][d] = "resolved"
        /\ chunkCount[f][d] > 0
        /\ chunkCount[f][d] < TotalChunks(fileSize[f], chunkSize)

\* ------------------------------------------------------------------ C13
\* Peer d has cancelled its receive of f: cancel() of `down-${fileId}` or a
\* cancel-transfer it handled.
RcvCancelled(d, f) ==
    rcv[d].control[f].cancelled /\ ~rcv[d].control[f].present

\* Peer d handles the next message of its channel in this step, and the
\* message is a chunk the sender cut from file f.
DeliversChunkOf(d, f) ==
    /\ rcv[d].handled < Len(sentLog[d])
    /\ rcv'[d].handled = rcv[d].handled + 1
    /\ sentLog[d][rcv[d].handled + 1].type = "chunk"
    /\ sentLog[d][rcv[d].handled + 1].src = f

\* C13: once a peer has cancelled its receive of f, by its own cancel() or by
\* a cancel-transfer it received, the receive holds nothing any more, and a
\* chunk of f that arrives later is discarded: it changes no stored chunk,
\* no running hash, no byte count, and raises nothing.
C13_LateChunksDiscarded ==
    [][\A d \in Dests, f \in Files :
          RcvCancelled(d, f) =>
              /\ IndexOf(rcv[d].incoming, f) = 0
              /\ DeliversChunkOf(d, f) =>
                    /\ rcv'[d].incoming = rcv[d].incoming
                    /\ rcv'[d].alerts = rcv[d].alerts
                    /\ rcv'[d].chat = rcv[d].chat]_vars

\* ------------------------------------------------------------------ C14
\* The sender's state after a handler, but for the note that the receiver
\* has sent its cancel, is the state before it.
SenderUntouched(s) == [s EXCEPT !.rcvGone = rcvGone] = St

\* The control messages the sender can write for f.
SenderControlMessages(f) ==
    {CancelTransfer(f), PauseBySender(f), ResumeBySender(f),
     FileDone(f, MD5(Payload(f, fileSize[f])))}

ReceivedBytes(d, f) ==
    LET i == IndexOf(rcv[d].incoming, f)
    IN  IF i = 0 THEN 0 ELSE rcv[d].incoming[i].received

\* C15: the byte count of a receive never exceeds the size announced in
\* file-start, and it never decreases while the receive exists.
C15_ReceivedWithinSize ==
    /\ [](\A d \in Dests : \A i \in DOMAIN rcv[d].incoming :
             rcv[d].incoming[i].received <= rcv[d].incoming[i].size)
    /\ [][\A d \in Dests, f \in Files :
             IndexOf(rcv[d].incoming, f)' # 0 =>
                 ReceivedBytes(d, f)' >= ReceivedBytes(d, f)]_vars

\* ------------------------------------------------------------------ C16
\* d's channel was not open when f was fanned out: sendFileToChannel
\* rejected before it wrote file-start.
SkippedAtStart(f, d) == promise[f][d] = "rejected" /\ ~HasStart(f, d)

\* C16: when a destination's channel is not open at the fan-out, only that
\* destination is skipped.  Once sendFileActual of f is over, no sibling
\* still has a live send loop (the transfer waited for them), and if a
\* sibling completed the transfer ended "sent".
C16_OnlyClosedDestinationSkipped ==
    \A f \in Files :
        ((\E d \in Dests : SkippedAtStart(f, d)) /\ run[f] = "done") =>
            /\ \A e \in Dests : ~LiveLoop(f, e)
            /\ (\E e \in Dests : Completed(f, e)) => result[f] = "sent"

\* ------------------------------------------------------------------ C17
\* The channel of d closed after file-start of f and before its file-done.
ClosedMidStream(f, d) == HasStart(f, d) /\ ~open[d] /\ ~Completed(f, d)

\* C17 (finite form): a sub-transfer whose channel closed in mid-stream is
\* treated as cancelled.  It is in a terminal state (its promise is settled;
\* a closed channel raises no buffer-low event that could settle it later),
\* and it does not decide the result: when nothing of the transfer was
\* cancelled by a user and a sibling completed, the finished transfer is
\* "sent".
C17_ClosedChannelIsCancelled ==
    \A f \in Files, d \in Dests :
        ClosedMidStream(f, d) =>
            /\ promise[f][d] # "pending"
            /\ ( /\ run[f] = "done"
                 /\ ~cancelled[f]
                 /\ \A e \in Dests : subCancelled[f][e] # "true"
                 /\ \E e \in Dests : Completed(f, e) )
               => result[f] = "sent"

\* ------------------------------------------------------------------ C18
\* The sender handles, in this step, the message of type t that peer r sent
\* for file f.
AppliesByReceiver(t, f, r) ==
    /\ rcv[r].toSender # << >>
    /\ Head(rcv[r].toSender) = ByReceiver(t, f)
    /\ FromReceiver(r)
    /\ transferControl[f]

\* After this step the sub-transfer (f, d) is not paused and its send loop
\* runs: if it was neither cancelled nor complete, a batch was written and
\* the loop either completed or is still the channel's listener.
Resumed(f, d) ==
    /\ subPaused'[f][d] # "true"
    /\ ( /\ subCancelled[f][d] = "false"
         /\ d \in subSendBatch[f]
         /\ open[d]
         /\ chunkCount[f][d] < TotalChunks(fileSize[f], chunkSize) )
       => /\ chunkCount'[f][d] > chunkCount[f][d]
          /\ Completed(f, d)' \/ handler'[d] = f

\* After this step the paused state of every destination of f but d is what
\* it was.
OthersKeep(f, d) ==
    \A e \in Dests \ {d} : subPaused'[f][e] = subPaused[f][e]

\* This step applies a pause or resume instruction to the transfer f.
Instructed(f) ==
    \/ ControlPause(f)
    \/ ControlResume(f)
    \/ \E d \in Dests : HandlePauseResume(f, d)
    \/ \E r \in Dests : AppliesByReceiver("pause-transfer-by-receiver", f, r)
    \/ \E r \in Dests : AppliesByReceiver("resume-transfer-by-receiver", f, r)

\* C18: the sender's paused state of a destination is the last pause or
\* resume instruction the sender applied to it, whoever gave it: the
\* sender's pause() / resume() of the whole transfer, the progress bar of one
\* destination, or the destination's receiver.  A resume sets the send loop
\* of the destination running again; an instruction for one destination
\* changes no other destination's paused state; and between instructions a
\* paused state only goes away with the completed sub-transfer.
C18_LastInstructionWins ==
    [][\A f \in Files :
          /\ ControlPause(f) =>
                \A d \in Dests : subPaused[f][d] # "unset" => subPaused'[f][d] = "true"
          /\ ControlResume(f) =>
                \A d \in Dests : subPaused[f][d] # "unset" => Resumed(f, d)
          /\ \A d \in Dests :
                HandlePauseResume(f, d) =>
                    /\ IF subPaused[f][d] = "true"
                       THEN Resumed(f, d)
                       ELSE subPaused'[f][d] = "true"
                    /\ OthersKeep(f, d)
          /\ \A r \in Dests :
                /\ AppliesByReceiver("pause-transfer-by-receiver", f, r) =>
                      subPaused'[f][r] = "true" /\ OthersKeep(f, r)
                /\ AppliesByReceiver("resume-transfer-by-receiver", f, r) =>
                      Resumed(f, r) /\ OthersKeep(f, r)
          /\ ~Instructed(f) =>
                \A d \in Dests :
                    /\ subPaused'[f][d] = "true" => subPaused[f][d] = "true"
                    /\ subPaused[f][d] = "true" => subPaused'[f][d] \in {"true", "unset"}]_vars

\* Destination d was paused and later resumed by the sender, its send loop
\* wrote a chunk after the resume, and another destination is still paused.
C18_Witness ==
    \E f \in Files, d \in Dests :
        /\ \E i, j, k \in DOMAIN sentLog[d] :
              /\ i < j /\ j < k
              /\ sentLog[d][i] = PauseBySender(f)
              /\ sentLog[d][j] = ResumeBySender(f)
              /\ sentLog[d][k].type = "chunk"
        /\ subPaused[f][d] # "true"
        /\ \E e \in Dests \ {d} : subPaused[f][e] = "true"

\* ------------------------------------------------------------------ C19
\* Peer d starts the handler of a message in this step.
StartsHandler(d) == rcv'[d].current # 0 /\ rcv'[d].current # rcv[d].current

\* The handler that starts is the one of the oldest message not handled yet,
\* and no handler of that peer is unfinished.
StartsInOrder(d) ==
    StartsHandler(d) =>
        /\ rcv[d].current = 0
        /\ rcv[d].phase = "idle"
        /\ rcv'[d].current = rcv[d].handled + 1

\* C19: the handler of a peer's event starts only when the handlers of all
\* earlier events of that peer have completed, in the order of arrival; so
\* when the handler of file-done for X starts, every chunk that arrived
\* before it has been applied completely.
C19_OneEventAtATime ==
    [][\A d \in Dests :
          /\ StartsInOrder(d)
          /\ (StartsHandler(d) /\ sentLog[d][rcv'[d].current].type = "file-done") =>
                \A j \in 1..(rcv'[d].current - 1) :
                    sentLog[d][j].type = "chunk" => j <= rcv[d].handled]_vars

\* The handler of a file-done has started and verified the file while
\* later messages of the peer are waiting in the queue.
C19_Witness ==
    \E d \in Dests :
        /\ rcv[d].current # 0
        /\ sentLog[d][rcv[d].current].type = "file-done"
        /\ rcv[d].pending # << >>
        /\ \E i \in DOMAIN rcv[d].chat :
              rcv[d].chat[i].file = sentLog[d][rcv[d].current].file

\* ------------------------------------------------------------------ C20
\* the most messages a channel carries in a run of the event queue
MaxEvents == LinkFiles * (MaxLen + 2)

\* C20: when the handler of a queued event throws or rejects, the error is
\* caught: every event that has arrived by then is still handled, and the
\* handlers keep starting in the order of arrival.
C20_ErrorsAreCaught ==
    /\ \A d \in Dests : \A i \in 1..MaxEvents :
          (rcv[d].phase = "rejected" /\ rcv[d].arrived >= i)
              ~> (rcv[d].handled >= i)
    /\ [][\A d \in Dests : ops > 0 => StartsInOrder(d)]_vars

\* A handler of the peer threw, and a file whose messages came after it
\* was received and verified.
C20_Witness ==
    \E d \in Dests :
        /\ ops > 0
        /\ rcv[d].phase = "idle"
        /\ rcv[d].chat # << >>
        /\ rcv[d].handled = Len(sentLog[d])

\* ------------------------------------------------------------------ C21
\* C21: once a peer has handled a file-done whose hash differs from its
\* computed hash, it has reported the file as corrupted, the file is not in
\* its chat, and the transfer is discarded: the inbound entry and the control
\* `down-${fileId}` are gone, so that no later chunk can be applied to it.
C21_MismatchDiscards ==
    \A d \in Dests, f \in Files :
        (DoneHandled(d, f) /\ ~Verified(d, f) /\ <<d, f>> \in tampered) =>
            /\ Corrupted(d, f)
            /\ IndexOf(rcv[d].incoming, f) = 0
            /\ ~rcv[d].control[f].present


\* ------------------------------------------------------------------ C22
\* The chunks of f among the first n messages written to d's channel.
ChunksBefore(f, d, n) ==
    SelectSeq(SubSeq(sentLog[d], 1, n), LAMBDA m : m.type = "chunk" /\ m.src = f)

\* Message i of d's channel is the first cancel-transfer of f, and the peer
\* has not cancelled the receive itself.
SenderCancelAt(f, d, i) ==
    /\ i \in DOMAIN sentLog[d]
    /\ sentLog[d][i] = CancelTransfer(f)
    /\ \A j \in 1..(i - 1) : sentLog[d][j] # CancelTransfer(f)
    /\ <<f, d>> \notin rcvGone

\* What the peer's receive of f holds when it has handled n messages.
HeldAt(f, d, n) ==
    LET r == Received(sentLog[d], n)
        e == IndexOf(r.incoming, f)
    IN  IF e = 0 THEN << >> ELSE r.incoming[e].chunks

\* C22: when the sender cancels f after k of its chunks were written to a
\* destination, the peer's receive of f holds exactly those k chunks when it
\* comes to handle cancel-transfer; having handled it the receive is
\* cancelled and holds nothing, and whatever the peer handles later, f is
\* never verified and never added to its chat.
C22_CancelAfterK ==
    \A d \in Dests, f \in Files :
      \A i \in DOMAIN sentLog[d] :
        SenderCancelAt(f, d, i) =>
            /\ LET sent == ChunksBefore(f, d, i - 1)
               IN  HeldAt(f, d, i - 1) = [k \in DOMAIN sent |-> sent[k].data]
            /\ \A n \in i..Len(sentLog[d]) :
                  LET r == Received(sentLog[d], n)
                  IN  /\ IndexOf(r.incoming, f) = 0
                      /\ r.control[f].cancelled
                      /\ \A c \in DOMAIN r.chat : r.chat[c].file # f


\* ------------------------------------------------------------------ C23
\* Every channel is open and stays open, nothing is cancelled, and the user
\* pauses and resumes single destinations.  What the sender does by itself
\* happens: a read ends, a settled Promise.all is passed on, a timer fires.
\* When a channel signals buffer-low, and whether it ever does, is left to
\* the channel.
InitDrain ==
    /\ InitSender
    /\ open = [d \in Dests |-> TRUE]
    /\ chunkSize = ChunkSize
    /\ quota = MainFiles
    /\ NoLink

NextDrain ==
    \/ \E n \in FileSizes : SendFile(n)
    \/ TimerFire
    \/ \E f \in Files : ReadOk(f)
    \/ \E f \in Files : AwaitDone(f)
    \/ \E d \in Dests : BufferLow(d)
    \/ \E f \in Files, d \in Dests : HandlePauseResume(f, d)

\* setTimeout callbacks run, the reaction to a settled Promise.all runs, and
\* file.arrayBuffer() settles: no file stays in the read for ever.
SenderRuns ==
    /\ WF_vars(TimerFire)
    /\ \A f \in Files : WF_vars(AwaitDone(f))
    /\ \A f \in Files : []<>(run[f] # "reading")

SpecDrain == InitDrain /\ [][NextDrain]_vars /\ SenderRuns

\* C23: a sub-transfer that has started on a channel that stays open leads
\* to its file-done, or to the destination being paused, whatever the
\* number of chunks and whenever (and whether) the channel signals
\* buffer-low.
C23_EventuallyFileDone ==
    \A f \in Files, d \in Dests :
        (promise[f][d] = "pending" /\ subPaused[f][d] # "true")
            ~> (Completed(f, d) \/ subPaused[f][d] = "true")


\* ------------------------------------------------------------------ C24
\* Message i of d's channel belongs to file f: a chunk cut from f, or a
\* control message that names f.
MessageOf(f, d, i) ==
    \/ sentLog[d][i].type = "chunk" /\ sentLog[d][i].src = f
    \/ sentLog[d][i].type # "chunk" /\ sentLog[d][i].file = f

\* C24: on every channel the file-done of a file is written at most once,
\* after all totalChunks chunks of the file were written to that channel; it
\* carries the MD5 of the whole payload, and nothing of that file follows it
\* on the channel.
C24_FileDoneOnceAndLast ==
    \A f \in Files, d \in Dests :
      \A i \in DOMAIN sentLog[d] :
        (sentLog[d][i].type = "file-done" /\ sentLog[d][i].file = f) =>
            /\ Len(ChunksBefore(f, d, i)) = TotalChunks(fileSize[f], chunkSize)
            /\ sentLog[d][i].hash = MD5(Payload(f, fileSize[f]))
            /\ \A j \in (i + 1)..Len(sentLog[d]) : ~MessageOf(f, d, j)

\* C24 witness: a file of more than one batch has its file-done on a channel
\* that went on to carry the next file.
C24_Witness ==
    \E f \in Files, d \in Dests :
        /\ TotalChunks(fileSize[f], chunkSize) > BatchSize
        /\ Completed(f, d)
        /\ sentLog[d][Len(sentLog[d])].type = "file-done"
        /\ sentLog[d][Len(sentLog[d])].file # f


\* ------------------------------------------------------------------ C25
\* Files of up to three batches on channels that stay open and that signal:
\* the user pauses and resumes single destinations and whole transfers, and
\* cancels whole transfers.
LongSizes == FileSizes \cup {(2 * BatchSize + ExtraChunks) * ChunkSize - 1}

NextSignal ==
    \/ \E n \in LongSizes : SendFile(n)
    \/ TimerFire
    \/ \E f \in Files : ReadOk(f)
    \/ \E f \in Files : AwaitDone(f)
    \/ \E d \in Dests : BufferLow(d)
    \/ \E f \in Files, d \in Dests : HandlePauseResume(f, d)
    \/ \E f \in Files : ControlPause(f)
    \/ \E f \in Files : ControlResume(f)
    \/ \E f \in Files : ControlCancel(f)

\* dc.onbufferedamountlow would do something: a listener is attached to the
\* open channel and its sendBatch is cancelled (it detaches and resolves) or
\* not paused (it writes).
BufferLowWaiting(d) ==
    /\ ~MicrotaskPending
    /\ open[d]
    /\ handler[d] # NoFile
    /\ \/ subCancelled[handler[d]][d] = "true"
       \/ subPaused[handler[d]][d] # "true"

\* A batch leaves more than the threshold queued, and an open channel
\* drains: the buffer-low event comes.  This is weak fairness of BufferLow(d),
\* whose steps are finitely many in a run, written with its enabling condition.
ChannelSignals == \A d \in Dests : []<>(~BufferLowWaiting(d))

SpecSignal ==
    /\ InitDrain
    /\ [][NextSignal]_vars
    /\ SenderRuns
    /\ ChannelSignals

\* The sender last told d that f is resumed.
ResumedLast(f, d) ==
    \E i \in DOMAIN sentLog[d] :
        /\ sentLog[d][i] = ResumeBySender(f)
        /\ \A j \in (i + 1)..Len(sentLog[d]) : sentLog[d][j] # PauseBySender(f)

\* C25: while the paused flag of a destination stays set, no chunk is
\* written to it, whatever its channel signals; the chunks written to a
\* destination that was resumed are chunk 0, 1, 2, ... of the payload, none
\* twice and none left out; and a resumed sub-transfer leads to its file-done
\* unless it is paused or cancelled again.
C25_PauseHoldsResumeContinues ==
    /\ [][\A f \in Files, d \in Dests :
            (subPaused[f][d] = "true" /\ subPaused'[f][d] = "true") =>
                /\ chunkCount'[f][d] = chunkCount[f][d]
                /\ ChunksOf(f, d)' = ChunksOf(f, d)]_vars
    /\ [](\A f \in Files, d \in Dests :
            (\E i \in DOMAIN sentLog[d] : sentLog[d][i] = ResumeBySender(f)) =>
                LET cs == ChunksOf(f, d)
                IN  \A k \in DOMAIN cs :
                        cs[k].data = ChunkOf(Payload(f, fileSize[f]), k - 1, chunkSize))
    /\ \A f \in Files, d \in Dests :
          (ResumedLast(f, d) /\ promise[f][d] = "pending")
              ~> \/ Completed(f, d)
                 \/ subPaused[f][d] = "true"
                 \/ subCancelled[f][d] = "true"

\* C25 witness: a destination was paused and then resumed when one batch of
\* a file of three batches was out, and the file-done of the file is on its
\* channel.
C25_Witness ==
    \E f \in Files, d \in Dests :
        /\ TotalChunks(fileSize[f], chunkSize) > 2 * BatchSize
        /\ \E i \in DOMAIN sentLog[d] :
              /\ sentLog[d][i] = ResumeBySender(f)
              /\ i > 1
              /\ sentLog[d][i - 1] = PauseBySender(f)
              /\ Len(ChunksBefore(f, d, i)) = BatchSize
        /\ Completed(f, d)


\* ------------------------------------------------------------------ C26
\* The controls on both sides on channels that signal, with the sender
\* handling every message a receiver wrote.
ReceiverHeard ==
    \A r \in Followed : []<>(rcv[r].toSender = << >> \/ MicrotaskPending)

SpecBothFair ==
    /\ SpecBoth
    /\ SenderRuns
    /\ ChannelSignals
    /\ ReceiverHeard

\* The sender has handled cancel-transfer-by-receiver of peer r for file f.
CancelledByReceiver(f, r) == <<f, r>> \in rcvGone

\* cancel() of `down-${fileId}` at peer d, as a step
ReceiverCancels(d, f) ==
    /\ rcv[d].control[f].present
    /\ rcv'[d].control[f].cancelled

\* C26: a peer that cancels a receive marks it cancelled, drops its data and
\* writes cancel-transfer-by-receiver to the sender; once the sender has
\* handled that message, the promise of the sub-transfer to that peer settles,
\* so that Promise.all over the sub-transfers can; and the sub-transfers to the
\* other peers lead to their file-done unless they are paused or cancelled.
C26_ReceiverCancelTerminates ==
    /\ [][\A d \in Followed, f \in Files :
            (ReceiverCancels(d, f) /\ rcv'[d].handled = rcv[d].handled) =>
                /\ IndexOf(rcv'[d].incoming, f) = 0
                /\ ~rcv'[d].control[f].present
                /\ rcv'[d].toSender =
                      Append(rcv[d].toSender,
                             ByReceiver("cancel-transfer-by-receiver", f))]_vars
    /\ \A f \in Files, r \in Dests :
          (CancelledByReceiver(f, r) /\ promise[f][r] = "pending")
              ~> (promise[f][r] # "pending")
    /\ \A f \in Files, r, d \in Dests :
          (CancelledByReceiver(f, r) /\ d # r /\ promise[f][d] = "pending")
              ~> \/ Completed(f, d)
                 \/ subPaused[f][d] = "true"
                 \/ subCancelled[f][d] = "true"


\* ------------------------------------------------------------------ C27
\* handleCancel of the progress bar `up-${fileId}-${targetId}`, as a step:
\* d's flag is set, and neither the whole transfer nor the receiver did it.
LocalCancel(f, d) ==
    /\ subCancelled[f][d] = "false"
    /\ subCancelled'[f][d] = "true"
    /\ cancelled'[f] = cancelled[f]
    /\ rcvGone' = rcvGone

\* Another destination of f is still being sent to.
OtherActive(f, d) ==
    \E e \in Dests \ {d} :
        promise[f][e] = "pending" /\ subCancelled[f][e] = "false"

\* C27: a local cancel of one destination d of f sets d's cancelled flag
\* and no other, detaches d's buffer-low listener, and writes cancel-transfer
\* to d's channel and nothing to any other; the control entry of f is removed
\* and the queue released only if no other destination was still active, and
\* the other destinations' loops stay as they were.
C27_SingleDestinationCancel ==
    [][\A f \in Files, d \in Dests :
          LocalCancel(f, d) =>
              /\ \A e \in Dests \ {d} :
                    /\ subCancelled'[f][e] = subCancelled[f][e]
                    /\ sentLog'[e] = sentLog[e]
                    /\ handler'[e] = handler[e]
                    /\ promise'[f][e] = promise[f][e]
              /\ handler[d] = f => handler'[d] = NoFile
              /\ sentLog'[d] = IF open[d] THEN Append(sentLog[d], CancelTransfer(f))
                               ELSE sentLog[d]
              /\ OtherActive(f, d) =>
                    /\ transferControl'[f]
                    /\ isSendingFile' = isSendingFile
                    /\ timers' = timers]_vars


\* ------------------------------------------------------------------ C28
\* Payloads of every length from 0 bytes on, over channels that alter and
\* lose nothing.
AnySizes == 0..MaxLen

NextSizes ==
    \/ \E n \in AnySizes : SendFile(n)
    \/ TimerFire
    \/ \E f \in Files : ReadOk(f)
    \/ \E f \in Files : AwaitDone(f)
    \/ \E d \in Dests : Deliver(d)

SpecSizes == InitLink /\ [][NextSizes]_vars

\* Peer d handles the file-done of f in this step, holds a receive of f,
\* and its computed hash equals the hash of the message.
DeliversMatchingDone(d, f) ==
    /\ rcv[d].handled < Len(sentLog[d])
    /\ rcv'[d].handled = rcv[d].handled + 1
    /\ LET m == sentLog[d][rcv[d].handled + 1]
           i == IndexOf(rcv[d].incoming, f)
       IN  /\ m.type = "file-done"
           /\ m.file = f
           /\ i # 0
           /\ HashMatches(rcv[d].incoming[i].hasher, m.hash)

\* the file messages of f in the chat of peer d
ChatOf(d, f) == SelectSeq(rcv[d].chat, LAMBDA c : c.file = f)

\* C28: whatever the size of the payload, zero bytes included, handling a
\* file-done whose hash equals the computed hash adds exactly one file
\* message for the file to the chat and removes the inbound entry and the
\* control `down-${fileId}`.
C28_VerifiedSurfacedOnce ==
    [][\A d \in Dests, f \in Files :
          DeliversMatchingDone(d, f) =>
              /\ Len(ChatOf(d, f)') = Len(ChatOf(d, f)) + 1
              /\ Len(ChatOf(d, f)') = 1
              /\ IndexOf(rcv'[d].incoming, f) = 0
              /\ ~rcv'[d].control[f].present]_vars


\* ------------------------------------------------------------------ C29
\* Peer d's receive of f is paused: by its own pause() or by a
\* pause-transfer-by-sender it handled.
RcvPaused(d, f) == rcv[d].control[f].present /\ rcv[d].control[f].paused

\* The receive of peer d that the next chunk belongs to: the first one that
\* is not cancelled and has received less than its size; 0 when there is none.
Taker(d) ==
    LET inc == rcv[d].incoming
        takes(i) == /\ ~rcv[d].control[inc[i].file].cancelled
                    /\ inc[i].received < inc[i].size
    IN  IF \E i \in DOMAIN inc : takes(i)
        THEN CHOOSE i \in DOMAIN inc : takes(i) /\ \A j \in 1..(i - 1) : ~takes(j)
        ELSE 0

\* Peer d handles the next message of its channel in this step: a chunk.
DeliversChunk(d) ==
    /\ rcv[d].handled < Len(sentLog[d])
    /\ rcv'[d].handled = rcv[d].handled + 1
    /\ sentLog[d][rcv[d].handled + 1].type = "chunk"

\* Peer d handles the file-done of f in this step, and its receive of f
\* holds the whole payload: every chunk has arrived.
DeliversDoneOfWhole(d, f) ==
    /\ rcv[d].handled < Len(sentLog[d])
    /\ rcv'[d].handled = rcv[d].handled + 1
    /\ sentLog[d][rcv[d].handled + 1] = FileDone(f, MD5(Payload(f, fileSize[f])))
    /\ LET i == IndexOf(rcv[d].incoming, f)
       IN  i # 0 /\ Concat(rcv[d].incoming[i].chunks) = Payload(f, fileSize[f])

\* C29: a chunk that a peer handles while the receive it belongs to is
\* paused is appended to that receive, folded into its running hash and
\* counted, like any other chunk; and a receive that holds the whole payload
\* when its file-done is handled is verified and not reported corrupted,
\* paused or not, however often it was paused and resumed.
C29_PausedReceiveStillStores ==
    [][\A d \in Followed :
          /\ (DeliversChunk(d) /\ Taker(d) # 0
                /\ RcvPaused(d, rcv[d].incoming[Taker(d)].file)) =>
                LET was == rcv[d].incoming[Taker(d)]
                    now == rcv'[d].incoming[Taker(d)]
                    chunk == sentLog[d][rcv[d].handled + 1]
                IN  /\ now.file = was.file
                    /\ now.chunks = Append(was.chunks, chunk.data)
                    /\ now.hasher = was.hasher \o chunk.data
                    /\ now.received = was.received + chunk.len
          /\ \A f \in Files :
                DeliversDoneOfWhole(d, f) =>
                    /\ ChatOf(d, f)' # << >>
                    /\ rcv'[d].alerts = rcv[d].alerts]_vars

\* C29 witness: a peer paused its receive while chunks were still to come,
\* did not resume it, and has verified the file.
C29_Witness ==
    \E d \in Followed, f \in Files :
        /\ Verified(d, f)
        /\ rcv[d].toSender # << >>
        /\ rcv[d].toSender[Len(rcv[d].toSender)] =
              ByReceiver("pause-transfer-by-receiver", f)


\* ------------------------------------------------------------------ C30
\* The outbound transfer of f has ended: sent, cancelled or failed.
OutboundTerminal(f) == result[f] \in {"sent", "cancelled", "failed"}

\* Peer d's receive of f has ended: verified, corrupt or cancelled.
InboundTerminal(d, f) ==
    Verified(d, f) \/ Corrupted(d, f) \/ RcvCancelled(d, f)

\* C30: once an outbound transfer has ended, transferControlRef has no entry
\* `up-${fileId}` and fileProgress no upload entry of the file; once a
\* receive has ended, its entry in incomingFilesRef, its control
\* `down-${fileId}` and its progress entry are gone.
C30_NoEntryOutlivesTransfer ==
    /\ \A f \in Files :
          OutboundTerminal(f) =>
              /\ ~transferControl[f]
              /\ \A k \in fileProgress : ~(k[1] = "up" /\ k[2] = f)
    /\ \A d \in Dests, f \in Files :
          InboundTerminal(d, f) =>
              /\ IndexOf(rcv[d].incoming, f) = 0
              /\ ~rcv[d].control[f].present
              /\ f \notin rcv[d].progress


\* ------------------------------------------------------------------ C31
\* Files whose chunk counts lie on both sides of the threshold count and of
\* the batch size, on channels that stay open.
ThresholdSizes ==
    {k * ChunkSize : k \in {1, LowWaterChunks, LowWaterChunks + 1, BatchSize - 1,
                            BatchSize, BatchSize + LowWaterChunks + 1}}

NextThreshold ==
    \/ \E n \in ThresholdSizes : SendFile(n)
    \/ TimerFire
    \/ \E f \in Files : ReadOk(f)
    \/ \E f \in Files : AwaitDone(f)
    \/ \E d \in Dests : BufferLow(d)

SpecThreshold == InitDrain /\ [][NextThreshold]_vars

\* A batch of f is written to d in this step.
BatchRuns(f, d) == chunkCount'[f][d] > chunkCount[f][d]

\* the chunks of f not yet written to d
Remaining(f, d) == TotalChunks(fileSize'[f], chunkSize) - chunkCount[f][d]

\* C31 as stated: a batch sets the buffer-low threshold of its channel to
\* zero when fewer chunks remain than the batch size, and to the non-zero
\* high-water value otherwise.
C31_ThresholdByBatchSize ==
    [][\A f \in Files, d \in Dests :
          BatchRuns(f, d) =>
              threshold'[d] = IF Remaining(f, d) < BatchSize
                              THEN 0 ELSE LowWaterChunks]_vars

\* C31, amended: a batch sets the buffer-low threshold of its channel to
\* zero when at most LowWaterChunks (16) chunks remain at its start, and to
\* the high-water value of LowWaterChunks chunks when more remain.
C31_ThresholdByLowWater ==
    [][\A f \in Files, d \in Dests :
          BatchRuns(f, d) =>
              /\ Remaining(f, d) <= LowWaterChunks => threshold'[d] = 0
              /\ Remaining(f, d) > LowWaterChunks =>
                    threshold'[d] = LowWaterChunks]_vars

\* C31 witness: the last batch on a channel began with more chunks left
\* than the threshold count and fewer than the batch size; it wrote them all
\* and left the high-water threshold set.
C31_Witness ==
    \E f \in Files, d \in Dests :
        /\ TotalChunks(fileSize[f], chunkSize) > LowWaterChunks
        /\ TotalChunks(fileSize[f], chunkSize) < BatchSize
        /\ sentLog[d] # << >>
        /\ sentLog[d][Len(sentLog[d])].type = "file-done"
        /\ sentLog[d][Len(sentLog[d])].file = f
        /\ threshold[d] = LowWaterChunks

\* The signaling server alone: the transfer engine and the call hook rest.
SpecHub == InitDrain /\ [][NextHub]_vars

SpecHubLocks == InitDrain /\ [][NextHubLocks]_vars

\* C32: every message of a client that the Hub puts into a client's send
\* channel, or holds for forwarding, carries in From the id of the
\* connection it was read from, whatever From the client wrote into it.
Delivered ==
    UNION {{hub.send[c][i] : i \in DOMAIN hub.send[c]} \cup {hub.conn[c].msg} : c \in Conns}

C32_FromIsConnectionId ==
    \A m \in Delivered : m.type = "signal" => m.from = hub.conn[m.conn].id

\* A message that its sender signed with somebody else's id is in the send
\* channel of another client.
C32_Witness ==
    \E c \in Conns : \E i \in DOMAIN hub.send[c] :
        LET m == hub.send[c][i]
        IN m.type = "signal" /\ m.conn # c /\ m.wrote # hub.conn[m.conn].id


\* C33: a client's message is delivered only inside the sender's own room:
\* with a To, to at most the one client of that id, and only in the
\* sender's room; without a To, to the other clients of the room and never
\* back to the sender; also when one id is present in two rooms.
Holders(m) == {c \in Conns : \E i \in DOMAIN hub.send[c] : hub.send[c][i] = m}

C33_OnlyOwnRoom ==
    \A c \in Conns : \A i \in DOMAIN hub.send[c] :
        LET m == hub.send[c][i]
        IN m.type = "signal" =>
             /\ hub.conn[c].room = hub.conn[m.conn].room
             /\ m.to # "" => hub.conn[c].id = m.to /\ Holders(m) = {c}
             /\ m.to = "" => c # m.conn


\* C37: a client that the Hub has registered, whose connection has not
\* ended and whose send channel the Hub has not closed, is in its room's
\* client map; the unregister of a connection that was replaced by a later
\* one of the same id leaves the later one in the room.
Connected(c) ==
    /\ c \in hub.joined
    /\ hub.conn[c].at \in {"up", "broadcast"}
    /\ c \in hub.open
    /\ c \notin hub.closed

InRoom(c) ==
    LET id == hub.conn[c].id
        room == hub.conn[c].room
    IN /\ room \in hub.rooms
       /\ id \in DOMAIN hub.clients[room]
       /\ hub.clients[room][id] = c

C37_RegisteredStaysInRoom == \A c \in Conns : Connected(c) => InRoom(c)


\* The scheduling of the server: a goroutine that can run does run, the
\* select of Hub.Run takes a case that stays ready (it picks among the
\* ready ones at random), and a getRooms that has its locks ends.
HubFair ==
    /\ WF_vars(GetOrCreateRoom)
    /\ WF_vars(RegisterInsert)
    /\ WF_vars(RegisterGreet)
    /\ WF_vars(\E old \in BOOLEAN : UnregisterRemove(old))
    /\ WF_vars(UnregisterDeleteRoom)
    /\ WF_vars(DropFailed)
    /\ \A c \in Conns :
         /\ WF_vars(HubRegister(c))
         /\ WF_vars(HubUnregister(c))
         /\ WF_vars(HubBroadcast(c))
    /\ \A g \in Listers :
         /\ WF_vars(\E r \in Rooms : GetRoomsLock(g, r))
         /\ WF_vars(GetRoomsUnlock(g))
         /\ WF_vars(GetRoomsDone(g))

SpecHubFair == SpecHubLocks /\ HubFair

\* C39: the goroutines of the server never deadlock: every send to the
\* Hub's register, unregister and broadcast channels is received, the Hub
\* always comes back to its select (it waits forever neither for a client's
\* send channel nor for a lock, and never sends on a closed channel), and
\* every getRooms gives its locks back.
C39_NoDeadlock ==
    /\ [](hub.pc # "panic")
    /\ \A c \in Conns :
         /\ (hub.conn[c].at = "register") ~> (hub.conn[c].at # "register")
         /\ (hub.conn[c].at = "broadcast") ~> (hub.conn[c].at # "broadcast")
         /\ (hub.conn[c].at = "unregister") ~> (hub.conn[c].at = "gone")
    /\ (hub.pc # "select") ~> (hub.pc = "select")
    /\ \A g \in Listers : (hub.list[g].at # "idle") ~> (hub.list[g].at = "idle")

\* The Hub waits for the write lock of a room that a getRooms is reading,
\* while a readPump waits to hand over a message.
C39_Witness ==
    /\ hub.pc \in {"insert", "remove", "drop"}
    /\ \E r \in Rooms : HubWaitsRoom(r) /\ ~RoomFree(r)
    /\ \E c \in Conns : hub.conn[c].at = "broadcast"

\* The call hook alone.
SpecCall == InitDrain /\ [][NextCall]_vars


\* C34: a call-request that arrives while the call status is not idle is
\* answered with call-busy and changes neither the call status nor the
\* remote user; startCall while the status is not idle changes nothing; the
\* remote user is never replaced by another one.
C34_BusyUnlessIdle ==
    [][ /\ \A u \in Users :
             HandleCallSignal("call-request", u) /\ call.callStatus # "idle"
                 => /\ call'.signals = Append(call.signals, << "call-busy", u >>)
                    /\ call'.callStatus = call.callStatus
                    /\ call'.remoteUser = call.remoteUser
        /\ \A u \in Users, ok \in BOOLEAN :
             StartCall(u, ok) /\ call.callStatus # "idle"
                 => /\ call'.signals = call.signals
                    /\ call'.callStatus = call.callStatus
                    /\ call'.remoteUser = call.remoteUser
        /\ call.remoteUser # "" /\ call'.remoteUser # ""
                 => call'.remoteUser = call.remoteUser ]_vars

\* C40: call-accept, call-reject, call-end or call-busy from a user who is
\* not the remote user of the ringing or ongoing call changes neither the
\* call status nor the remote user nor the media state.
C40_StrangerChangesNothing ==
    [][ \A type \in CallSignals \ {"call-request"}, u \in Users :
            /\ HandleCallSignal(type, u)
            /\ call.callStatus # "idle"
            /\ u # call.remoteUser
            => /\ call'.callStatus = call.callStatus
               /\ call'.remoteUser = call.remoteUser
               /\ call'.localStream = call.localStream
               /\ call'.remoteVideo = call.remoteVideo ]_vars


\* C35: every chunk a receiver holds, in the stored chunks and in the
\* running hash of one of its receives, was cut by the sender from the file
\* of that receive: no byte of a file X is in the receive of a file Y.
C35_ChunkToOwnTransfer ==
    \A d \in Dests : \A i \in DOMAIN rcv[d].incoming :
        LET tr == rcv[d].incoming[i]
        IN /\ \A j \in DOMAIN tr.hasher : tr.hasher[j][1] = tr.file
           /\ \A c \in DOMAIN tr.chunks :
                \A j \in DOMAIN tr.chunks[c] : tr.chunks[c][j][1] = tr.file


\* ------------------------------------------------------------------ C36
\* dc.onmessage of peer a's channel hands a ...-by-receiver message to
\* handleMessage, which looks at msg.fileId and msg.receiverId only: the
\* peer writes what it likes into both.  (rcvGone, which notes what honest
\* receivers have sent, stays.)
ByReceiverOn(a, t, f, r) ==
    /\ ~MicrotaskPending
    /\ CountOp
    /\ open[a]
    /\ Becomes([OnByReceiver(St, ByReceiver(t, f), r) EXCEPT !.rcvGone = rcvGone])

ByReceiverTypes ==
    {"pause-transfer-by-receiver", "resume-transfer-by-receiver",
     "cancel-transfer-by-receiver"}

NextForged ==
    \/ \E n \in FileSizes : SendFile(n)
    \/ TimerFire
    \/ \E f \in Files : ReadOk(f)
    \/ \E f \in Files : AwaitDone(f)
    \/ \E d \in Dests : BufferLow(d)
    \/ \E a \in Dests, t \in ByReceiverTypes, f \in Files, r \in Dests :
          ByReceiverOn(a, t, f, r)

SpecForged == InitDrain /\ [][NextForged]_vars

\* C36: a pause-, resume- or cancel-transfer-by-receiver message that
\* arrives on peer a's channel leaves, for every other destination b, the
\* paused flag, the cancelled flag and what has been written to b's channel
\* as they were.
C36_OnlyOwnSubTransfer ==
    [][\A a \in Dests, t \in ByReceiverTypes, f \in Files, r \in Dests :
          ByReceiverOn(a, t, f, r) =>
              \A b \in Dests \ {a} :
                  /\ \A g \in Files :
                        /\ subPaused'[g][b] = subPaused[g][b]
                        /\ subCancelled'[g][b] = subCancelled[g][b]
                  /\ sentLog'[b] = sentLog[b]]_vars


\* ------------------------------------------------------------------ C38
\* Nothing is on its way between the sender and peer d: the peer has handled
\* everything written to its channel and the sender everything the peer sent.
Quiet(d) == rcv[d].handled = Len(sentLog[d]) /\ rcv[d].toSender = << >>

\* Both sides hold the transfer of f to d.
BothHold(f, d) ==
    /\ transferControl[f]
    /\ d \in subChannels[f]
    /\ subCancelled[f][d] # "true"
    /\ rcv[d].control[f].present

\* C38: once every pause and resume message between the sender and a peer
\* has been delivered and handled, the peer's paused flag of the file equals
\* the sender's paused flag of that destination, however the pauses and
\* resumes of the two sides interleave and cross.
C38_PausedFlagsAgree ==
    \A d \in Followed, f \in Files :
        Quiet(d) /\ BothHold(f, d) =>
            (rcv[d].control[f].paused <=> subPaused[f][d] = "true")


\* A file of three batches, so that a transfer outlives a pause and a
\* resume, sent on open channels; the user of the sender pauses and resumes
\* single destinations, the followed peer pauses and resumes its receive.
CrossSizes == {(2 * BatchSize + ExtraChunks) * ChunkSize - 1}

NextCross ==
    \/ \E n \in CrossSizes : SendFile(n)
    \/ \E f \in Files : ReadOk(f)
    \/ \E f \in Files : AwaitDone(f)
    \/ \E d \in Dests : BufferLow(d)
    \/ \E d \in Followed : Deliver(d)
    \/ \E d \in Followed, f \in Files : RcvHandlePauseResume(d, f)
    \/ \E r \in Followed : FromReceiver(r)
    \/ \E f \in Files, d \in Dests : HandlePauseResume(f, d)

SpecCross == InitBoth /\ [][NextCross]_vars

====
